---------------------------- MODULE Spec2Model ----------------------------
(*
  footiestat: batch dispatch and retry coordination.

  Five state machines share this module:
    SpecPartition  the chunking loop of Command.handle (range/slice),
    SpecDispatch   the queue-aware dispatcher of init_teams / init_standings
                   together with the broker queue it feeds,
    SpecLeague     populate_standings_task and _process_single_league against
                   the remote source, the task runtime and the entity store,
    SpecReplace    successive runs of _process_single_league for one league,
    SpecTeam       populate_teams_task and _process_single_country.
*)
EXTENDS Integers, Sequences, FiniteSets, TLC

VARIABLES
    \* ---- chunking loop (SpecPartition)
    p_keys,              \* the ordered key list
    p_batch_size,        \* options['countries_per_task'] / ['leagues_per_task']
    p_i,                 \* loop variable of range(0, len(keys), batch_size)
    p_chunks,            \* the slices produced so far, in order
    \* ---- dispatcher (SpecDispatch)
    cmd,                 \* "init_teams" | "init_standings"
    keys,                \* countries_names / leagues_ids
    listing,             \* how the key-listing query ended: "ok" | "raised"
    batch_size,
    dry_run,
    max_queue,
    i,                   \* loop variable of the for loop
    pc,                  \* "loop" | "submit" | "done"
    current_queue_size,  \* last value read from redis.llen
    successful_batches,
    failed_batches,
    queue,               \* the broker list "celery": messages waiting for a worker
    executed,            \* messages a worker has taken and run, in order
    events,              \* what the dispatcher did, in order (checks, sleeps, submissions)
    \* ---- standings worker (SpecLeague)
    snapshots,           \* the LeagueTableSnapshot rows of the store
    t_pc,                \* "idle" | "loop": position of populate_standings_task
    t_args,              \* league_ids of the running execution
    t_retries,           \* self.request.retries of the running execution
    t_idx,               \* position of the for loop in league_ids (1-based)
    t_result,            \* how the last execution ended: "SUCCESS" | "RETRY" | "FAILURE"
    t_execs,             \* executions started so far
    t_invoked,           \* league ids handed to _process_single_league by this execution
    sync,                \* the last _process_single_league invocation, "none" otherwise
    \* ---- successive standings syncs of one league (SpecReplace)
    run,                 \* the last run: its response, database outcome and result
    \* ---- team worker (SpecTeam)
    teams,               \* the Team rows of the store
    c_pc,                \* "idle" | "loop": position of populate_teams_task
    c_args,              \* country_names of the running execution
    c_retries,           \* self.request.retries of the running execution
    c_idx,               \* position of the for loop in country_names (1-based)
    c_result,            \* how the last execution ended: "SUCCESS" | "RETRY" | "FAILURE"
    c_execs,             \* executions started so far
    c_invoked,           \* country names handed to _process_single_country by this execution
    csync,               \* the last _process_single_country invocation, "none" otherwise
    \* ---- the Country and League rows and successive runs over one store (SpecStore)
    countries,           \* the Country rows of the store
    leagues,             \* the League rows of the store
    upstream,            \* what the remote source serves: league listing, teams of a country
    runs_left,           \* runs of init_data / of the team sync still to be made
    irun,                \* the last init_data run, "none" otherwise
    trun,                \* the last team sync run, "none" otherwise
    \* ---- two workers writing the same keys (SpecRace)
    w_pc,                \* per worker: "count" | "delete" | "deleting" | "insert" | "commit" | "done"
    w_job,               \* per worker: what it syncs and the response it fetched
    w_tx,                \* per worker: the uncommitted writes of its transaction
    w_out,               \* per worker: what the sync raised and the retries it requested
    w_order              \* the workers in the order of their commits

pvars == <<p_keys, p_batch_size, p_i, p_chunks>>
dvars == <<cmd, keys, listing, batch_size, dry_run, max_queue, i, pc, current_queue_size,
           successful_batches, failed_batches, queue, executed, events>>
lvars == <<snapshots, t_pc, t_args, t_retries, t_idx, t_result, t_execs, t_invoked, sync>>
rvars == <<run>>
tvars == <<teams, c_pc, c_args, c_retries, c_idx, c_result, c_execs, c_invoked, csync>>
svars == <<countries, leagues, upstream, runs_left, irun, trun>>
wvars == <<w_pc, w_job, w_tx, w_out, w_order>>
vars == <<pvars, dvars, lvars, rvars, tvars, svars, wvars>>

-----------------------------------------------------------------------------
(* Bounds of the model *)

MaxPartKeys == 7
MaxPartBatch == 5
MaxKeys == 3
MaxBatchSize == 2
MaxCeiling == 2
MaxOther == 2
MaxRows == 2
MaxExecs == 1
MaxItems == 2
MaxInitBatch == 2
MaxRuns == 2
MaxChainExecs == 15

(* Program constants *)

\* --wait-time default, seconds
DefaultWaitTime == 10
\* time.sleep(0.1) after a submission in init_standings, in tenths of a second
SmallDelayTenths == 1
\* @shared_task(bind=True, max_retries=3, default_retry_delay=5)
max_retries == 3
default_retry_delay == 5
\* the 5 of countdown=5 * (2 ** self.request.retries)
backoff_base == 5

-----------------------------------------------------------------------------
(* Helpers *)

Min(a, b) == IF a < b THEN a ELSE b

\* The list 1..n as a sequence: key lists hold distinct keys.
KeyList(n) == [k \in 1..n |-> k]

RECURSIVE Flatten(_)
Flatten(ss) == IF ss = <<>> THEN <<>> ELSE Head(ss) \o Flatten(Tail(ss))

\* Python's s[a:b] for 0 <= a <= b: the elements at 0-based positions a..b-1,
\* cut at the end of the list; empty when a is at or past the end.
SliceOffByOne(s, a, b) == SubSeq(s, a + 1, Min(b - 1, Len(s)))
Slice(s, a, b) == SubSeq(s, a + 1, Min(b, Len(s)))

\* total_batches = (len(keys) + batch_size - 1) // batch_size
total_batches_of(n, b) == (n + b - 1) \div b

\* Whether range(0, n, b) still yields the value at position a.
InRange(a, n) == a < n

-----------------------------------------------------------------------------
(* The chunking loop of Command.handle:
       for i in range(0, len(keys), batch_size):
           batch = keys[i:i + batch_size]                                    *)

PartitionIdle ==
    /\ p_keys = <<>> /\ p_batch_size = 1 /\ p_i = 0 /\ p_chunks = <<>>

PartitionInit ==
    /\ \E n \in 0..MaxPartKeys : p_keys = KeyList(n)
    /\ p_batch_size \in 1..MaxPartBatch
    /\ p_i = 0
    /\ p_chunks = <<>>

\* One iteration of the for loop: take the slice, move to the next start.
PartitionStep ==
    /\ InRange(p_i, Len(p_keys))
    /\ p_chunks' = Append(p_chunks, Slice(p_keys, p_i, p_i + p_batch_size))
    /\ p_i' = p_i + p_batch_size
    /\ UNCHANGED <<p_keys, p_batch_size>>
    /\ UNCHANGED <<dvars, lvars, rvars, tvars, svars, wvars>>

PartitionDone == ~InRange(p_i, Len(p_keys))

-----------------------------------------------------------------------------
(* The dispatcher: Command.handle of init_teams and init_standings *)

wait_time == DefaultWaitTime

\* A message as .delay(batch) puts it on the broker list: first execution, retries = 0.
Message(c, batch) ==
    [task |-> IF c = "init_teams" THEN "populate_teams_task" ELSE "populate_standings_task",
     args |-> batch, retries |-> 0, countdown |-> 0]

CheckEv(at, size)      == [ev |-> "check",  i |-> at, size |-> size, t |-> 0, outcome |-> "read"]
CheckRaisedEv(at)      == [ev |-> "check",  i |-> at, size |-> -1,   t |-> 0, outcome |-> "raised"]
SleepEv(at, t)         == [ev |-> "sleep",  i |-> at, size |-> -1,   t |-> t, outcome |-> "none"]
SubmitEv(at, outcome)  == [ev |-> "submit", i |-> at, size |-> -1,   t |-> 0, outcome |-> outcome]
DryEv(at)              == [ev |-> "dry",    i |-> at, size |-> -1,   t |-> 0, outcome |-> "none"]

\* if current_queue_size >= max_queue:
QueueFullStrict(size, ceiling) == size > ceiling
QueueFull(size, ceiling) == size >= ceiling

\* `continue` in the queue-full branch ends this iteration of the for loop: the
\* loop variable takes range()'s next value.
AfterQueueFullRechecks(at, b) == at
AfterQueueFull(at, b) == at + b

\* if isinstance(e, ConnectionError): break  else: continue
BreaksOnTimeoutToo(outcome) == outcome \in {"ConnectionError", "TimeoutError"}
NeverBreaks(outcome) == FALSE
Breaks(outcome) == outcome = "ConnectionError"

\* _get_countries_names / _get_leagues_ids: list(queryset), or [] from the handler.
GetKeysKeepsStored(stored, outcome) == stored
GetKeys(stored, outcome) == IF outcome = "raised" THEN <<>> ELSE stored

batch_at == Slice(keys, i, i + batch_size)
total_batches == total_batches_of(Len(keys), batch_size)

DispatchIdle ==
    /\ cmd = "init_teams" /\ keys = <<>> /\ listing = "ok"
    /\ batch_size = 1 /\ dry_run = FALSE
    /\ max_queue = 1 /\ i = 0 /\ pc = "done" /\ current_queue_size = -1
    /\ successful_batches = 0 /\ failed_batches = 0
    /\ queue = <<>> /\ executed = <<>> /\ events = <<>>

DispatchInit ==
    /\ cmd \in {"init_teams", "init_standings"}
    /\ \E n \in 0..MaxKeys, outcome \in {"ok", "raised"} :
           /\ listing = outcome
           /\ keys = GetKeys(KeyList(n), outcome)
    /\ batch_size \in 1..MaxBatchSize
    /\ dry_run \in BOOLEAN
    /\ max_queue \in 1..MaxCeiling
    /\ i = 0
    /\ pc = "loop"
    /\ current_queue_size = -1
    /\ successful_batches = 0
    /\ failed_batches = 0
    /\ queue = <<>>
    /\ executed = <<>>
    /\ events = <<>>

dconfig == <<cmd, keys, listing, batch_size, dry_run, max_queue>>

DryRunStepSubmits ==
    /\ pc = "loop" /\ InRange(i, Len(keys)) /\ dry_run
    /\ successful_batches' = successful_batches + 1
    /\ events' = Append(events, DryEv(i))
    /\ queue' = Append(queue, Message(cmd, batch_at))
    /\ i' = i + batch_size
    /\ UNCHANGED <<dconfig, pc, current_queue_size, failed_batches, executed>>
    /\ UNCHANGED <<svars, wvars, pvars, svars, wvars, lvars, rvars, tvars>>

\* if dry_run: ... successful_batches += 1; continue
DryRunStep ==
    /\ pc = "loop" /\ InRange(i, Len(keys)) /\ dry_run
    /\ IF batch_at = <<>>
         THEN UNCHANGED <<successful_batches, events>>
         ELSE /\ successful_batches' = successful_batches + 1
              /\ events' = Append(events, DryEv(i))
    /\ i' = i + batch_size
    /\ UNCHANGED <<dconfig, pc, current_queue_size, failed_batches, queue, executed>>
    /\ UNCHANGED <<svars, wvars, pvars, svars, wvars, lvars, rvars, tvars>>

\* current_queue_size = redis.llen("celery"), then the comparison with max_queue.
\* The list holds this dispatcher's messages and those of other producers.
CheckQueue ==
    /\ pc = "loop" /\ InRange(i, Len(keys)) /\ ~dry_run /\ batch_at # <<>>
    /\ \E other \in 0..MaxOther :
         LET size == Len(queue) + other IN
         /\ current_queue_size' = size
         /\ IF QueueFull(size, max_queue)
              THEN /\ events' = events \o <<CheckEv(i, size), SleepEv(i, wait_time * 10)>>
                   /\ i' = AfterQueueFull(i, batch_size)
                   /\ pc' = "loop"
              ELSE /\ events' = Append(events, CheckEv(i, size))
                   /\ i' = i
                   /\ pc' = "submit"
    /\ UNCHANGED <<dconfig, successful_batches, failed_batches, queue, executed>>
    /\ UNCHANGED <<svars, wvars, pvars, svars, wvars, lvars, rvars, tvars>>

CheckQueueRaisesUncounted ==
    /\ pc = "loop" /\ InRange(i, Len(keys)) /\ ~dry_run /\ batch_at # <<>>
    /\ events' = Append(events, CheckRaisedEv(i))
    /\ i' = i + batch_size
    /\ UNCHANGED <<dconfig, pc, current_queue_size, successful_batches, failed_batches,
                   queue, executed>>
    /\ UNCHANGED <<svars, wvars, pvars, svars, wvars, lvars, rvars, tvars>>

\* redis.llen raises (a redis error is no builtin ConnectionError): except Exception.
CheckQueueRaises ==
    /\ pc = "loop" /\ InRange(i, Len(keys)) /\ ~dry_run /\ batch_at # <<>>
    /\ events' = Append(events, CheckRaisedEv(i))
    /\ failed_batches' = failed_batches + 1
    /\ i' = i + batch_size
    /\ UNCHANGED <<dconfig, pc, current_queue_size, successful_batches, queue, executed>>
    /\ UNCHANGED <<svars, wvars, pvars, svars, wvars, lvars, rvars, tvars>>

\* populate_*_task.delay(batch) and what follows it in the try block and its handlers.
Submit ==
    /\ pc = "submit"
    \* .delay(batch) accepts the message, or raises
    /\ \E outcome \in {"ok", "ConnectionError", "TimeoutError", "Exception"} :
         IF outcome = "ok"
           THEN /\ queue' = Append(queue, Message(cmd, batch_at))
                /\ events' = IF cmd = "init_standings"
                               THEN events \o <<SubmitEv(i, "ok"), SleepEv(i, SmallDelayTenths)>>
                               ELSE Append(events, SubmitEv(i, "ok"))
                /\ successful_batches' = successful_batches + 1
                /\ failed_batches' = failed_batches
                /\ i' = i + batch_size
                /\ pc' = "loop"
           ELSE /\ queue' = queue
                /\ events' = Append(events, SubmitEv(i, outcome))
                /\ successful_batches' = successful_batches
                /\ failed_batches' = failed_batches + 1
                /\ IF Breaks(outcome)
                     THEN i' = i /\ pc' = "done"
                     ELSE i' = i + batch_size /\ pc' = "loop"
    /\ UNCHANGED <<dconfig, current_queue_size, executed>>
    /\ UNCHANGED <<svars, wvars, pvars, svars, wvars, lvars, rvars, tvars>>

\* The for loop is exhausted: the summary is written.
Summary ==
    /\ pc = "loop" /\ ~InRange(i, Len(keys))
    /\ pc' = "done"
    /\ UNCHANGED <<dconfig, i, current_queue_size, successful_batches, failed_batches,
                   queue, executed, events>>
    /\ UNCHANGED <<svars, wvars, pvars, svars, wvars, lvars, rvars, tvars>>

\* A worker takes the oldest message off the broker list and runs its task.
WorkerTake ==
    /\ queue # <<>>
    /\ executed' = Append(executed, Head(queue))
    /\ queue' = Tail(queue)
    /\ UNCHANGED <<dconfig, i, pc, current_queue_size, successful_batches,
                   failed_batches, events>>
    /\ UNCHANGED <<svars, wvars, pvars, svars, wvars, lvars, rvars, tvars>>

DispatchNext ==
    \/ DryRunStep
    \/ CheckQueue
    \/ CheckQueueRaises
    \/ Submit
    \/ Summary
    \/ WorkerTake

-----------------------------------------------------------------------------
(* The entity store, the remote source and the task runtime, as far as
   populate_standings_task and _process_single_league use them *)

\* Country(name=..., country_code=...); name is unique.
Country(name, code) == [name |-> name, code |-> code]
\* League(id=..., name=..., country=..., season=...); the country by its name.
League(id, name, country, season) ==
    [id |-> id, name |-> name, country |-> country, season |-> season]
\* The 'national' key of the upstream element that carries this team id: the
\* remote source marks team 2 as a national side ('national': True); the other
\* elements carry no such key.
NationalKey(id) == IF id = 2 THEN "true" ELSE "absent"

\* Team(id=team_info['id'], ..., country=country,
\*      national=team_info.get('national', False)); the country by its name.
TeamNationalByDefault(id, country) ==
    [id |-> id, country |-> country, national |-> NationalKey(id) # "false"]
Team(id, country) ==
    [id |-> id, country |-> country, national |-> NationalKey(id) = "true"]

\* The store the workers run against: two countries, two leagues, two teams.
BaseCountries == {Country("England", "GB"), Country("Spain", "ES")}
BaseLeagues == {League(1, "PL", "England", 2024), League(2, "Liga", "Spain", 2023)}
BaseTeams == {Team(1, "England"), Team(2, "England")}

\* League rows of the store: id -> season.
StoredLeagues == {l.id : l \in leagues}
LeagueSeason == [id \in StoredLeagues |-> (CHOOSE l \in leagues : l.id = id).season]
\* A league id the store does not hold.
UnknownLeague == 9
\* Team rows of the store (ids); the remote source also names team 3.
StoredTeams == {t.id : t \in teams}

\* One row of the standings array: the team id and the rank it carries; 0 stands
\* for a row that lacks the key.
Rows == {[team |-> 1, rank |-> 1], [team |-> 2, rank |-> 1], [team |-> 2, rank |-> 2],
         [team |-> 3, rank |-> 1], [team |-> 0, rank |-> 1], [team |-> 1, rank |-> 0]}
HasTeam(row) == row.team # 0
HasRank(row) == row.rank # 0

\* What get_league_table does: raise, or return a value of one of these shapes.
\*   transport_error  raises requests.RequestException
\*   other_error      raises another exception
\*   absent           None or {}
\*   not_a_dict       a truthy value without .get
\*   zero_results     {'results': 0, ...}
\*   not_a_list       {'response': <not a list>}
\*   empty_response   {'response': []}
\*   bad_element      {'response': [<not subscriptable by key>]}
\*   no_standings     {'response': [{'league': {}}]} or without 'league'
\*   empty_standings  {'response': [{'league': {'standings': []}}]}
\*   table            {'response': [{'league': {'standings': [rows]}}]}
ShapeKinds == {"transport_error", "other_error", "absent", "not_a_dict", "zero_results",
               "not_a_list", "empty_response", "bad_element", "no_standings",
               "empty_standings"}

Responses ==
    [kind : ShapeKinds, rows : {<<>>}]
        \cup [kind : {"table"}, rows : UNION {[1..n -> Rows] : n \in 0..MaxRows}]

\* What the database does during this invocation; it is reached only with a table.
DbOutcomesFor(resp) ==
    IF resp.kind = "table" THEN {"ok", "lookup_fails", "insert_fails"} ELSE {"ok"}

\* Task.retry of the task runtime, called in an execution whose request.retries is
\* r: the message of the next attempt is sent unless that attempt would exceed
\* max_retries; the call always raises (Retry when sent, else exc or
\* MaxRetriesExceededError).
TaskRetryUnbounded(r, exc, countdown) ==
    [sent |-> TRUE, retries |-> r + 1, countdown |-> countdown, raises |-> "Retry"]
TaskRetry(r, exc, countdown) ==
    [sent      |-> r + 1 <= max_retries,
     retries   |-> r + 1,
     countdown |-> countdown,
     raises    |-> IF r + 1 <= max_retries THEN "Retry"
                   ELSE IF exc = "none" THEN "MaxRetriesExceededError" ELSE exc]

RetryMessage(args, call) ==
    [task |-> "populate_standings_task", args |-> args,
     retries |-> call.retries, countdown |-> call.countdown]

RECURSIVE SentMessages(_, _)
SentMessages(args, calls) ==
    IF calls = <<>> THEN <<>>
    ELSE (IF Head(calls).sent THEN <<RetryMessage(args, Head(calls))>> ELSE <<>>)
         \o SentMessages(args, Tail(calls))

\* A key that a standings row lacks: -1 for a number, "absent" for the form.
Absent == -1

\* What the remote source serves in the standings row of a team besides 'team'
\* and 'rank': points, goalsDiff, the statistics nested under 'all' (goals for
\* and against, played, win, draw, lose) and the form string. The row of team 1
\* is complete; the row of any other team has an 'all' with 'played' and 'lose'
\* only, and no 'form'.
RowData(team) ==
    IF team = 1
      THEN [points |-> 7, goalsDiff |-> 2, for |-> 5, against |-> 3, played |-> 3,
            win |-> 2, draw |-> 1, lose |-> 0, form |-> "WWD"]
      ELSE [points |-> 1, goalsDiff |-> -4, for |-> Absent, against |-> Absent,
            played |-> 3, win |-> Absent, draw |-> Absent, lose |-> 2,
            form |-> "absent"]

\* dict.get(key, default), also through the chain .get('all', {}).get(...)
GetOrKeeps(v, absent, default) == v
GetOr(v, absent, default) == IF v = absent THEN default ELSE v

\* LeagueTableSnapshot(league=league, season=league.season, rank=team_data["rank"],
\*                     team=team, points=team_data["points"], ...)
Snapshot(lid, row) ==
    LET d == RowData(row.team)
    IN  [league |-> lid, season |-> LeagueSeason[lid], team |-> row.team,
         rank |-> row.rank, points |-> d.points, goal_difference |-> d.goalsDiff,
         goals_for |-> GetOr(d.for, Absent, 0),
         goals_against |-> GetOr(d.against, Absent, 0),
         matches_played |-> GetOr(d.played, Absent, 0),
         wins |-> GetOr(d.win, Absent, 0),
         draws |-> GetOr(d.draw, Absent, 0),
         losses |-> GetOr(d.lose, Absent, 0),
         last_five |-> GetOr(d.form, "absent", "")]

\* LeagueTableSnapshot.objects.filter(league=league, season=league.season)
ExistingAnyLeague(snaps, lid) == snaps
Existing(snaps, lid) == {x \in snaps : x.league = lid /\ x.season = LeagueSeason[lid]}

\* unique_league_table_snapshot: (league, season, team)
ConflictsNever(snaps, x) == FALSE
Conflicts(snaps, x) ==
    \E y \in snaps : y.league = x.league /\ y.season = x.season /\ y.team = x.team

\* bulk_create(table_list, ignore_conflicts=True): rows are inserted in order, a
\* row that violates the unique constraint is left out.
RECURSIVE BulkCreateIgnoreConflicts(_, _)
BulkCreateIgnoreConflicts(snaps, table_list) ==
    IF table_list = <<>> THEN snaps
    ELSE BulkCreateIgnoreConflicts(
             IF Conflicts(snaps, Head(table_list)) THEN snaps
             ELSE snaps \cup {Head(table_list)},
             Tail(table_list))

-----------------------------------------------------------------------------
(* _process_single_league(task, league_id, league) *)

\* The outcome of a block of code: the store it leaves, the task.retry calls it
\* made, the exception it raised ("none": it completed), and whether the
\* persistence step raised.
Outcome(snaps, calls, raised, db_raised) ==
    [snapshots |-> snaps, calls |-> calls, raised |-> raised, db_raised |-> db_raised,
     body_raised |-> raised, resp |-> "fetched"]

\* if not response or response.get('results') == 0
\*    or not isinstance(response.get('response'), list):
InvalidResponseNoResultsCheck(kind) == kind \in {"absent", "not_a_list"}
InvalidResponse(kind) == kind \in {"absent", "zero_results", "not_a_list"}

\* response["response"][0]["league"]["standings"][0] raises KeyError or IndexError
StandingsNotFound(kind) == kind \in {"empty_response", "no_standings", "empty_standings"}

\* except (KeyError, IndexError): log; return
OnStandingsNotFoundRetry(r, snaps) ==
    LET call == TaskRetry(r, "none", default_retry_delay)
    IN  Outcome(snaps, <<call>>, call.raises, FALSE)
OnStandingsNotFound(r, snaps) == Outcome(snaps, <<>>, "none", FALSE)

RECURSIVE TableListNoTeamCheck(_, _)
TableListNoTeamCheck(lid, rows) ==
    IF rows = <<>> THEN <<>>
    ELSE (IF HasRank(Head(rows)) THEN <<Snapshot(lid, Head(rows))>> ELSE <<>>)
         \o TableListNoTeamCheck(lid, Tail(rows))

\* table_list: one snapshot per row whose team is in the store; a row whose
\* construction raises (a missing rank, points or goalsDiff key) is left out.
RECURSIVE TableList(_, _)
TableList(lid, rows) ==
    IF rows = <<>> THEN <<>>
    ELSE (IF Head(rows).team \in StoredTeams /\ HasRank(Head(rows))
            THEN <<Snapshot(lid, Head(rows))>>
            ELSE <<>>) \o TableList(lid, Tail(rows))

InTransactionNoDelete(lid, table_list, db, snaps) ==
    IF db = "insert_fails"
      THEN Outcome(snaps, <<>>, "DatabaseError", TRUE)
      ELSE Outcome(BulkCreateIgnoreConflicts(snaps, table_list), <<>>, "none", FALSE)

\* The statements inside the transaction: count, delete the existing rows of
\* (league, league.season), bulk_create. The store of the result is the
\* transaction's own view; bulk_create can raise after the delete.
InTransaction(lid, table_list, db, snaps) ==
    LET deleted == snaps \ Existing(snaps, lid)
    IN  IF db = "insert_fails"
          THEN Outcome(deleted, <<>>, "DatabaseError", TRUE)
          ELSE Outcome(BulkCreateIgnoreConflicts(deleted, table_list), <<>>, "none", FALSE)

\* with transaction.atomic(): the block's writes are committed when it completes
\* and rolled back when it raises.
AtomicNoRollback(snaps, block) == block
Atomic(snaps, block) ==
    IF block.raised = "none" THEN block ELSE [block EXCEPT !.snapshots = snaps]

\* if table_list: ... else: log a warning
SkipsWriteNever(table_list) == FALSE
SkipsWrite(table_list) == table_list = <<>>

\* The body of the outer try block, after the retry-budget check.
TryBody(r, lid, resp, db, snaps) ==
    IF resp.kind = "transport_error" THEN Outcome(snaps, <<>>, "RequestException", FALSE)
    ELSE IF resp.kind = "other_error" THEN Outcome(snaps, <<>>, "Exception", FALSE)
    ELSE IF resp.kind = "not_a_dict" THEN Outcome(snaps, <<>>, "AttributeError", FALSE)
    ELSE IF InvalidResponse(resp.kind)
      THEN LET call == TaskRetry(r, "none", default_retry_delay)
           IN  Outcome(snaps, <<call>>, call.raises, FALSE)
    ELSE IF resp.kind = "bad_element" THEN Outcome(snaps, <<>>, "TypeError", FALSE)
    ELSE IF StandingsNotFound(resp.kind) THEN OnStandingsNotFound(r, snaps)
    ELSE IF \E k \in 1..Len(resp.rows) : ~HasTeam(resp.rows[k])
      THEN Outcome(snaps, <<>>, "KeyError", FALSE)
    ELSE IF db = "lookup_fails" THEN Outcome(snaps, <<>>, "DatabaseError", FALSE)
    ELSE IF SkipsWrite(TableList(lid, resp.rows)) THEN Outcome(snaps, <<>>, "none", FALSE)
    \* the atomic block; the except clause around it logs and re-raises
    ELSE Atomic(snaps, InTransaction(lid, TableList(lid, resp.rows), db, snaps))

\* except requests.RequestException as exc: task.retry(exc=exc)
OnRequestExceptionNoRetry(r, body) == [body EXCEPT !.raised = "none"]
OnRequestException(r, body) ==
    LET call == TaskRetry(r, "RequestException", default_retry_delay)
    IN  [body EXCEPT !.calls = Append(body.calls, call), !.raised = call.raises]

\* except Exception as exc: log; return
OnExceptionRetry(r, body) ==
    LET call == TaskRetry(r, body.raised, default_retry_delay)
    IN  [body EXCEPT !.calls = Append(body.calls, call), !.raised = call.raises]
OnException(r, body) == [body EXCEPT !.raised = "none"]

\* if task.request.retries >= task.max_retries: log; return
BudgetExhaustedOff(r) == FALSE
BudgetExhausted(r) == r >= max_retries

\* The whole function: what it leaves in the store, the retry calls it made, what
\* it raised to its caller, and (body_raised) the exception the try block
\* raised before any except clause ran.
ProcessSingleLeague(r, lid, resp, db, snaps) ==
    IF BudgetExhausted(r)
      THEN [Outcome(snaps, <<>>, "none", FALSE) EXCEPT !.resp = "not fetched"]
      ELSE LET body == TryBody(r, lid, resp, db, snaps)
           IN  IF body.raised = "none" THEN body
               ELSE IF body.raised = "RequestException" THEN OnRequestException(r, body)
               ELSE OnException(r, body)

-----------------------------------------------------------------------------
(* populate_standings_task(self, league_ids) *)

NoSync == [kind |-> "none"]

\* The batches a message can carry: league ids of the store, and one it lacks.
LeagueBatches == {<<1>>, <<1, 2>>, <<UnknownLeague, 1>>, <<2, UnknownLeague>>}

LeagueTaskIdle ==
    /\ t_pc = "idle" /\ t_args = <<>> /\ t_retries = 0
    /\ t_idx = 1 /\ t_result = "none" /\ t_execs = 0 /\ t_invoked = <<>>
    /\ sync = NoSync

LeagueIdle == snapshots = {} /\ LeagueTaskIdle

\* A message of the unit is on the broker list: the dispatcher's (retries = 0), or
\* the one a chain of earlier attempts left.
LeagueInit ==
    /\ \E b \in LeagueBatches, r \in 0..max_retries :
           queue = <<[Message("init_standings", b) EXCEPT !.retries = r]>>
    /\ LeagueIdle
    /\ cmd = "init_standings" /\ keys = <<>> /\ listing = "ok"
    /\ batch_size = 1 /\ dry_run = FALSE
    /\ max_queue = 1 /\ i = 0 /\ pc = "done" /\ current_queue_size = -1
    /\ successful_batches = 0 /\ failed_batches = 0
    /\ executed = <<>> /\ events = <<>>

dispatcher_state == <<cmd, keys, listing, batch_size, dry_run, max_queue, i, pc, current_queue_size,
                      successful_batches, failed_batches, events>>

Remove(q, k) == SubSeq(q, 1, k - 1) \o SubSeq(q, k + 1, Len(q))

\* countdown=5 * (2 ** self.request.retries)
BackoffFixed(r) == backoff_base
Backoff(r) == backoff_base * (2 ^ r)

\* A worker takes the message at position k of the broker list and enters the
\* task; the bulk lookup of the leagues succeeds. `cap` bounds the executions.
StartTask(k, cap) ==
    /\ t_pc = "idle" /\ t_execs < cap
    /\ k \in 1..Len(queue)
    /\ queue[k].task = "populate_standings_task"
    /\ queue' = Remove(queue, k)
    /\ executed' = Append(executed, queue[k])
    /\ t_args' = queue[k].args
    /\ t_retries' = queue[k].retries
    /\ t_pc' = "loop"
    /\ t_idx' = 1
    /\ t_result' = "none"
    /\ t_execs' = t_execs + 1
    /\ t_invoked' = <<>>
    /\ sync' = NoSync
    /\ UNCHANGED <<snapshots, dispatcher_state, pvars, svars, wvars, rvars, tvars>>

\* A worker takes a message and the bulk lookup of the leagues raises: the except
\* clause of the task calls self.retry.
StartTaskLookupRaises(k, cap) ==
    /\ t_pc = "idle" /\ t_execs < cap
    /\ k \in 1..Len(queue)
    /\ LET call == TaskRetry(queue[k].retries, "DatabaseError", Backoff(queue[k].retries))
       IN  /\ queue[k].task = "populate_standings_task"
           /\ queue' = Remove(queue, k) \o SentMessages(queue[k].args, <<call>>)
           /\ executed' = Append(executed, queue[k])
           /\ t_args' = queue[k].args
           /\ t_retries' = queue[k].retries
           /\ t_result' = IF call.raises = "Retry" THEN "RETRY" ELSE "FAILURE"
    /\ t_pc' = "idle"
    /\ t_idx' = 1
    /\ t_execs' = t_execs + 1
    /\ t_invoked' = <<>>
    /\ sync' = NoSync
    /\ UNCHANGED <<snapshots, dispatcher_state, pvars, svars, wvars, rvars, tvars>>

SkipUnknownLeagueRetries ==
    /\ t_pc = "loop" /\ t_idx <= Len(t_args)
    /\ t_args[t_idx] \notin StoredLeagues
    /\ LET call == TaskRetry(t_retries, "DoesNotExist", Backoff(t_retries))
       IN  /\ queue' = queue \o SentMessages(t_args, <<call>>)
           /\ t_result' = IF call.raises = "Retry" THEN "RETRY" ELSE "FAILURE"
    /\ t_pc' = "idle"
    /\ sync' = NoSync
    /\ UNCHANGED <<snapshots, t_args, t_retries, t_idx, t_execs, t_invoked,
                   executed, dispatcher_state, pvars, svars, wvars, rvars, tvars>>

\* league = leagues.get(league_id); if not league: log; continue
SkipUnknownLeague ==
    /\ t_pc = "loop" /\ t_idx <= Len(t_args)
    /\ t_args[t_idx] \notin StoredLeagues
    /\ t_idx' = t_idx + 1
    /\ sync' = NoSync
    /\ UNCHANGED <<snapshots, t_pc, t_args, t_retries, t_result, t_execs, t_invoked,
                   queue, executed, dispatcher_state, pvars, svars, wvars, rvars, tvars>>

\* _process_single_league(self, league_id, league) for the next league of the
\* batch; an exception it raises reaches the except clause of the task, which
\* calls self.retry with the backoff countdown.
SyncLeague ==
    /\ t_pc = "loop" /\ t_idx <= Len(t_args)
    /\ t_args[t_idx] \in StoredLeagues
    /\ \E resp \in Responses : \E db \in DbOutcomesFor(resp) :
         \E out \in {ProcessSingleLeague(t_retries, t_args[t_idx], resp, db, snapshots)} :
         LET lid == t_args[t_idx]
             call == TaskRetry(t_retries, out.raised, Backoff(t_retries))
         IN  /\ snapshots' = out.snapshots
             /\ t_invoked' = Append(t_invoked, lid)
             /\ sync' = [kind |-> resp.kind, league |-> lid, retries |-> t_retries,
                         calls |-> out.calls, raised |-> out.raised,
                         body_raised |-> out.body_raised,
                         db_raised |-> out.db_raised, before |-> snapshots,
                         fetched |-> out.resp = "fetched"]
             /\ IF out.raised = "none"
                  THEN /\ queue' = queue \o SentMessages(t_args, out.calls)
                       /\ t_idx' = t_idx + 1
                       /\ UNCHANGED <<t_pc, t_result>>
                  ELSE /\ queue' = queue \o SentMessages(t_args, Append(out.calls, call))
                       /\ t_idx' = t_idx
                       /\ t_pc' = "idle"
                       /\ t_result' = IF call.raises = "Retry" THEN "RETRY" ELSE "FAILURE"
    /\ UNCHANGED <<t_args, t_retries, t_execs, executed, dispatcher_state, pvars, svars, wvars, rvars, tvars>>

\* The for loop is exhausted: the task returns.
FinishTask ==
    /\ t_pc = "loop" /\ t_idx > Len(t_args)
    /\ t_pc' = "idle"
    /\ t_result' = "SUCCESS"
    /\ sync' = NoSync
    /\ UNCHANGED <<snapshots, t_args, t_retries, t_idx, t_execs, t_invoked,
                   queue, executed, dispatcher_state, pvars, svars, wvars, rvars, tvars>>

LeagueNext ==
    \/ \E k \in 1..Len(queue) : StartTask(k, MaxExecs)
    \/ \E k \in 1..Len(queue) : StartTaskLookupRaises(k, MaxExecs)
    \/ SkipUnknownLeague
    \/ SyncLeague
    \/ FinishTask

-----------------------------------------------------------------------------
(* Successive runs of _process_single_league for one league: each run is the
   first execution (request.retries = 0) of a batch that holds this league *)

ReplaceLeague == 1

NoRun == [kind |-> "none"]

ReplaceIdle == run = NoRun

\* The responses of the runs: a standings array, empty or with rows.
RunResponses == {resp \in Responses : resp.kind \in {"empty_standings", "table"}}

\* The database is written only with a non-empty table_list; bulk_create can raise.
RunDbOutcomesFor(resp) ==
    IF /\ resp.kind = "table"
       /\ \A k \in 1..Len(resp.rows) : HasTeam(resp.rows[k])
       /\ TableList(ReplaceLeague, resp.rows) # <<>>
      THEN {"ok", "insert_fails"}
      ELSE {"ok"}

\* One run: the fetch returns resp, the database behaves as db.
RunSync ==
    /\ \E resp \in RunResponses : \E db \in RunDbOutcomesFor(resp) :
         \E out \in {ProcessSingleLeague(0, ReplaceLeague, resp, db, snapshots)} :
             /\ snapshots' = out.snapshots
             /\ run' = [kind |-> resp.kind, rows |-> resp.rows, db |-> db,
                        league |-> ReplaceLeague, calls |-> out.calls,
                        raised |-> out.raised, body_raised |-> out.body_raised,
                        db_raised |-> out.db_raised, before |-> snapshots]
    /\ UNCHANGED <<t_pc, t_args, t_retries, t_idx, t_result, t_execs, t_invoked, sync>>
    /\ UNCHANGED <<svars, wvars, pvars, svars, wvars, dvars, tvars>>


-----------------------------------------------------------------------------
(* The remote source and the store, as far as populate_teams_task and
   _process_single_country use them *)

\* Country rows of the store, by name, and a name the store does not hold.
StoredCountries == {c.name : c \in countries}
UnknownCountry == "Atlantis"

\* One element of the 'response' list, by the team id it carries: 0 stands for an
\* element without a usable team id (no 'team' key, no 'id', id None or 0), -1
\* for an element that has no .get (or whose 'team' is None).
NoId == 0
NotADict == -1
TeamSeqs == UNION {[1..n -> {NotADict, NoId, 1, 2}] : n \in 0..MaxRows}

\* What get_team_details does: raise, or return a value of one of these shapes.
\*   transport_error  raises requests.RequestException
\*   other_error      raises another exception (response.json() fails)
\*   absent           None or {}
\*   not_a_dict       a truthy value without .get
\*   not_a_list       {'response': <not a list>} or no 'response' key
\*   list             {'response': [elements]}
TeamShapeKinds == {"transport_error", "other_error", "absent", "not_a_dict", "not_a_list"}

TeamResponses == [kind : TeamShapeKinds, rows : {<<>>}] \cup [kind : {"list"}, rows : TeamSeqs]

\* What Team.objects.bulk_create does during this invocation.
TeamDbOutcomesFor(resp) == IF resp.kind = "list" THEN {"ok", "insert_fails"} ELSE {"ok"}

\* teams: one Team per element that carries an id; the others are skipped.
RECURSIVE TeamsOf(_, _)
TeamsOf(country, rows) ==
    IF rows = <<>> THEN <<>>
    ELSE (IF Head(rows) = NoId THEN <<>> ELSE <<Team(Head(rows), country)>>)
         \o TeamsOf(country, Tail(rows))

\* Team.objects.bulk_create(teams, batch_size=500, ignore_conflicts=True): a row
\* whose primary key is already stored is left out.
RECURSIVE BulkCreateTeams(_, _)
BulkCreateTeams(tms, new) ==
    IF new = <<>> THEN tms
    ELSE BulkCreateTeams(
             IF \E x \in tms : x.id = Head(new).id THEN tms ELSE tms \cup {Head(new)},
             Tail(new))

TeamRetryMessageLastKey(args, call) ==
    [task |-> "populate_teams_task", args |-> <<args[Len(args)]>>,
     retries |-> call.retries, countdown |-> call.countdown]
TeamRetryMessage(args, call) ==
    [task |-> "populate_teams_task", args |-> args,
     retries |-> call.retries, countdown |-> call.countdown]

RECURSIVE TeamSentMessages(_, _)
TeamSentMessages(args, calls) ==
    IF calls = <<>> THEN <<>>
    ELSE (IF Head(calls).sent THEN <<TeamRetryMessage(args, Head(calls))>> ELSE <<>>)
         \o TeamSentMessages(args, Tail(calls))

-----------------------------------------------------------------------------
(* _process_single_country(task, country_name, country) *)

\* The outcome of a block of code: the store it leaves, the task.retry calls it
\* made, the exception it raised, and the bulk_create calls it made (writes).
CountryOutcome(tms, calls, raised) ==
    [teams |-> tms, calls |-> calls, raised |-> raised, body_raised |-> raised,
     fetched |-> TRUE, writes |-> 0]

\* if not response or not isinstance(response.get('response'), list):
InvalidTeamResponse(kind) == kind \in {"absent", "not_a_list"}

\* The body of the try block, after the retry-budget check.
CountryBody(r, country, resp, db, tms) ==
    IF resp.kind = "transport_error" THEN CountryOutcome(tms, <<>>, "RequestException")
    ELSE IF resp.kind = "other_error" THEN CountryOutcome(tms, <<>>, "Exception")
    ELSE IF resp.kind = "not_a_dict" THEN CountryOutcome(tms, <<>>, "AttributeError")
    ELSE IF InvalidTeamResponse(resp.kind)
      THEN LET call == TaskRetry(r, "none", default_retry_delay)
           IN  CountryOutcome(tms, <<call>>, call.raises)
    ELSE IF \E k \in 1..Len(resp.rows) : resp.rows[k] = NotADict
      THEN CountryOutcome(tms, <<>>, "AttributeError")
    ELSE IF TeamsOf(country, resp.rows) = <<>> THEN CountryOutcome(tms, <<>>, "none")
    ELSE IF db = "insert_fails"
      THEN [CountryOutcome(tms, <<>>, "DatabaseError") EXCEPT !.writes = 1]
    ELSE [CountryOutcome(BulkCreateTeams(tms, TeamsOf(country, resp.rows)), <<>>, "none")
            EXCEPT !.writes = 1]

\* except Exception as exc: log; task.retry(exc=exc)
OnCountryExceptionNoRetry(r, body) == [body EXCEPT !.raised = "none"]
OnCountryException(r, body) ==
    LET call == TaskRetry(r, body.raised, default_retry_delay)
    IN  [body EXCEPT !.calls = Append(body.calls, call), !.raised = call.raises]

ProcessSingleCountry(r, country, resp, db, tms) ==
    IF BudgetExhausted(r)
      THEN [CountryOutcome(tms, <<>>, "none") EXCEPT !.fetched = FALSE]
      ELSE LET body == CountryBody(r, country, resp, db, tms)
           IN  IF body.raised = "none" THEN body ELSE OnCountryException(r, body)

-----------------------------------------------------------------------------
(* populate_teams_task(self, country_names) *)

\* The batches a message can carry: names of the store, and one it lacks.
CountryBatches == {<<"England">>, <<"England", "Spain">>, <<UnknownCountry, "England">>,
                   <<"Spain", UnknownCountry>>}

TeamTaskIdle ==
    /\ c_pc = "idle" /\ c_args = <<>> /\ c_retries = 0
    /\ c_idx = 1 /\ c_result = "none" /\ c_execs = 0 /\ c_invoked = <<>>
    /\ csync = NoSync

TeamIdle == teams = {} /\ TeamTaskIdle

\* No team task runs; the store holds the teams the standings name.
TeamsStored == teams = BaseTeams /\ TeamTaskIdle

\* A message of the unit is on the broker list: the dispatcher's (retries = 0), or
\* the one a chain of earlier attempts left.
TeamInit ==
    /\ \E b \in CountryBatches, r \in 0..max_retries :
           queue = <<[Message("init_teams", b) EXCEPT !.retries = r]>>
    /\ TeamIdle
    /\ cmd = "init_teams" /\ keys = <<>> /\ listing = "ok"
    /\ batch_size = 1 /\ dry_run = FALSE
    /\ max_queue = 1 /\ i = 0 /\ pc = "done" /\ current_queue_size = -1
    /\ successful_batches = 0 /\ failed_batches = 0
    /\ executed = <<>> /\ events = <<>>

\* A worker takes the message at position k of the broker list and enters the
\* task; the bulk lookup of the countries succeeds. `cap` bounds the executions.
StartTeamTask(k, cap) ==
    /\ c_pc = "idle" /\ c_execs < cap
    /\ k \in 1..Len(queue)
    /\ queue[k].task = "populate_teams_task"
    /\ queue' = Remove(queue, k)
    /\ executed' = Append(executed, queue[k])
    /\ c_args' = queue[k].args
    /\ c_retries' = queue[k].retries
    /\ c_pc' = "loop"
    /\ c_idx' = 1
    /\ c_result' = "none"
    /\ c_execs' = c_execs + 1
    /\ c_invoked' = <<>>
    /\ csync' = NoSync
    /\ UNCHANGED <<teams, dispatcher_state, pvars, svars, wvars, lvars, rvars>>

\* A worker takes a message and the bulk lookup of the countries raises: the
\* except clause of the task calls self.retry.
StartTeamTaskLookupRaises(k, cap) ==
    /\ c_pc = "idle" /\ c_execs < cap
    /\ k \in 1..Len(queue)
    /\ LET call == TaskRetry(queue[k].retries, "DatabaseError", default_retry_delay)
       IN  /\ queue[k].task = "populate_teams_task"
           /\ queue' = Remove(queue, k) \o TeamSentMessages(queue[k].args, <<call>>)
           /\ executed' = Append(executed, queue[k])
           /\ c_args' = queue[k].args
           /\ c_retries' = queue[k].retries
           /\ c_result' = IF call.raises = "Retry" THEN "RETRY" ELSE "FAILURE"
    /\ c_pc' = "idle"
    /\ c_idx' = 1
    /\ c_execs' = c_execs + 1
    /\ c_invoked' = <<>>
    /\ csync' = NoSync
    /\ UNCHANGED <<teams, dispatcher_state, pvars, svars, wvars, lvars, rvars>>

\* country = countries.get(country_name); if not country: log; continue
SkipUnknownCountry ==
    /\ c_pc = "loop" /\ c_idx <= Len(c_args)
    /\ c_args[c_idx] \notin StoredCountries
    /\ c_idx' = c_idx + 1
    /\ csync' = NoSync
    /\ UNCHANGED <<teams, c_pc, c_args, c_retries, c_result, c_execs, c_invoked,
                   queue, executed, dispatcher_state, pvars, svars, wvars, lvars, rvars>>

\* _process_single_country(self, country_name, country) for the next country of
\* the batch; an exception it raises reaches the except clause of the task,
\* which calls self.retry. upstream_of[country] is what get_team_details can do.
SyncCountryFrom(upstream_of) ==
    /\ c_pc = "loop" /\ c_idx <= Len(c_args)
    /\ c_args[c_idx] \in StoredCountries
    /\ \E resp \in upstream_of[c_args[c_idx]] : \E db \in TeamDbOutcomesFor(resp) :
         \E out \in {ProcessSingleCountry(c_retries, c_args[c_idx], resp, db, teams)} :
         LET country == c_args[c_idx]
             call == TaskRetry(c_retries, out.raised, default_retry_delay)
         IN  /\ teams' = out.teams
             /\ c_invoked' = Append(c_invoked, country)
             /\ csync' = [kind |-> resp.kind, rows |-> resp.rows, db |-> db,
                          country |-> country, retries |-> c_retries,
                          calls |-> out.calls, raised |-> out.raised,
                          body_raised |-> out.body_raised, before |-> teams,
                          fetched |-> out.fetched, writes |-> out.writes]
             /\ IF out.raised = "none"
                  THEN /\ queue' = queue \o TeamSentMessages(c_args, out.calls)
                       /\ c_idx' = c_idx + 1
                       /\ UNCHANGED <<c_pc, c_result>>
                  ELSE /\ queue' = queue \o TeamSentMessages(c_args, Append(out.calls, call))
                       /\ c_idx' = c_idx
                       /\ c_pc' = "idle"
                       /\ c_result' = IF call.raises = "Retry" THEN "RETRY" ELSE "FAILURE"
    /\ UNCHANGED <<c_args, c_retries, c_execs, executed, dispatcher_state, pvars, svars, wvars, lvars, rvars>>

\* The remote source answers with any data.
SyncCountry == SyncCountryFrom([country \in StoredCountries |-> TeamResponses])

\* The remote source holds the same teams for a country at every call; a call
\* fails or returns them.
UpstreamTeams(country) == IF country = "England" THEN <<1, 2>> ELSE <<2, NoId>>
UnchangedTeamResponses ==
    [country \in StoredCountries |->
        [kind : TeamShapeKinds, rows : {<<>>}]
            \cup {[kind |-> "list", rows |-> UpstreamTeams(country)]}]

\* The for loop is exhausted: the task returns.
FinishTeamTask ==
    /\ c_pc = "loop" /\ c_idx > Len(c_args)
    /\ c_pc' = "idle"
    /\ c_result' = "SUCCESS"
    /\ csync' = NoSync
    /\ UNCHANGED <<teams, c_args, c_retries, c_idx, c_execs, c_invoked,
                   queue, executed, dispatcher_state, pvars, svars, wvars, lvars, rvars>>

TeamNext ==
    \/ \E k \in 1..Len(queue) : StartTeamTask(k, MaxExecs)
    \/ \E k \in 1..Len(queue) : StartTeamTaskLookupRaises(k, MaxExecs)
    \/ SkipUnknownCountry
    \/ SyncCountry
    \/ FinishTeamTask

-----------------------------------------------------------------------------
(* init_data: Command.handle, _fetch_leagues, _process_countries and
   _process_leagues; and successive runs of init_data and of the team sync
   over one store *)

\* item['country'] is None
NullCountry == ""

\* One element of the league listing: the country (name, code) and the league
\* (id, name, first season's year); "" and 0 stand for a missing value.
Item(country, code, id, name, season) ==
    [country |-> country, code |-> code, id |-> id, name |-> name, season |-> season]

\* The listing's elements: a league; the same country with another code and the
\* same league id with another name; a second country's league; a league
\* without a country; another id with the (name, season, country) of the first;
\* a league without a name and a league without a season year, each with a
\* country.
UpstreamItems ==
    {Item("England", "GB", 1, "PL", 2024),
     Item("England", "XX", 1, "Liga", 2024),
     Item("Spain", "ES", 2, "Liga", 2023),
     Item(NullCountry, "", 2, "PL", 2024),
     Item("England", "GB", 2, "PL", 2024),
     Item("Spain", "ES", 3, "", 2023),
     Item("Spain", "ES", 3, "Copa", 0)}

LeagueListings == UNION {[1..n -> UpstreamItems] : n \in 0..MaxItems}


\* countries[country['name']] = country, for every item with a country: the
\* names, and for each name the data of the last item that carries it.
CountryNames(items) == {items[k].country : k \in 1..Len(items)} \ {NullCountry}
LastOf(items, name) ==
    items[CHOOSE k \in 1..Len(items) :
              /\ items[k].country = name
              /\ \A j \in (k + 1)..Len(items) : items[j].country # name]

\* _process_countries: the countries not yet stored are created; the result is
\* the store and the names of country_map.
ProcessCountriesOverwrites(items, cstore) ==
    [countries |-> {c \in cstore : c.name \notin CountryNames(items)}
                   \cup {Country(n, LastOf(items, n).code) : n \in CountryNames(items)},
     country_map |-> CountryNames(items)]
ProcessCountries(items, cstore) ==
    LET existing == {c.name : c \in cstore} \cap CountryNames(items)
        new_countries == {Country(n, LastOf(items, n).code) :
                              n \in CountryNames(items) \ existing}
        stored == cstore \cup new_countries
    IN  [countries |-> stored,
         country_map |-> {c.name : c \in stored} \cap CountryNames(items)]

LeagueConflictsTripleOnly(lstore, x) ==
    \E y \in lstore : y.name = x.name /\ y.season = x.season /\ y.country = x.country

\* The primary key id, and unique_league_season: (name, season, country).
LeagueConflicts(lstore, x) ==
    \E y \in lstore :
        \/ y.id = x.id
        \/ (y.name = x.name /\ y.season = x.season /\ y.country = x.country)

\* League.objects.bulk_create(leagues, ignore_conflicts=True, batch_size=...)
RECURSIVE BulkCreateLeagues(_, _)
BulkCreateLeagues(lstore, new) ==
    IF new = <<>> THEN lstore
    ELSE BulkCreateLeagues(
             IF LeagueConflicts(lstore, Head(new)) THEN lstore
             ELSE lstore \cup {Head(new)},
             Tail(new))

\* An item is left out of `leagues`: item['country']['name'] raises for a null
\* country (the loop's handler), the validation fails, or country_map lacks the
\* country.
SkipsItemUnnamedOnly(item, country_map) == item.name = ""
SkipsItem(item, country_map) ==
    \/ item.country = NullCountry
    \* if not all([league_data.get('name'), country_name, season_year])
    \/ ~(item.name # "" /\ item.country # NullCountry /\ item.season # 0)
    \/ item.country \notin country_map

\* The for loop of _process_leagues and its final batch: `pending` is the list
\* `leagues`; every item left out is counted as skipped.
RECURSIVE LeagueLoop(_, _, _, _, _, _)
LeagueLoop(items, country_map, batch, pending, lstore, skipped) ==
    IF items = <<>>
      THEN [leagues |-> IF pending # <<>> THEN BulkCreateLeagues(lstore, pending)
                        ELSE lstore,
            skipped |-> skipped]
    ELSE LET item == Head(items) IN
         IF SkipsItem(item, country_map)
           THEN LeagueLoop(Tail(items), country_map, batch, pending, lstore, skipped + 1)
           ELSE LET appended == Append(pending,
                                       League(item.id, item.name, item.country, item.season))
                IN  IF Len(appended) >= batch
                      THEN LeagueLoop(Tail(items), country_map, batch, <<>>,
                                      BulkCreateLeagues(lstore, appended), skipped)
                      ELSE LeagueLoop(Tail(items), country_map, batch, appended,
                                      lstore, skipped)

ProcessLeaguesFirstBatchOnly(items, country_map, batch, lstore) ==
    LeagueLoop(SubSeq(items, 1, Min(batch, Len(items))), country_map, batch, <<>>, lstore, 0)
ProcessLeagues(items, country_map, batch, lstore) ==
    LeagueLoop(items, country_map, batch, <<>>, lstore, 0)

\* handle, under @transaction.atomic: the fetch, the countries, the leagues; an
\* exception is written to stderr and raised again.
HandleSwallowsFailure(fetch, items, batch, cstore, lstore) ==
    [countries |-> cstore, leagues |-> lstore, skipped |-> 0, raised |-> "none"]
Handle(fetch, items, batch, cstore, lstore) ==
    IF fetch = "raised"
      THEN [countries |-> cstore, leagues |-> lstore, skipped |-> 0, raised |-> "Exception"]
      ELSE LET cs == ProcessCountries(items, cstore)
               ls == ProcessLeagues(items, cs.country_map, batch, lstore)
           IN  [countries |-> cs.countries, leagues |-> ls.leagues,
                skipped |-> ls.skipped, raised |-> "none"]

StoreIdle ==
    /\ countries = BaseCountries /\ leagues = BaseLeagues
    /\ upstream = [leagues |-> <<>>, country |-> "England", teams |-> <<>>]
    /\ runs_left = 0
    /\ irun = NoRun /\ trun = NoRun

\* The remote source serves a league listing; MaxRuns runs are to be made.
\* The stores a run can start from: empty, the result of an earlier listing,
\* the workers' store.
StoreDataInit ==
    /\ \E st \in {[countries |-> {}, leagues |-> {}],
                  [countries |-> {Country("England", "XX")},
                   leagues |-> {League(1, "Liga", "England", 2024)}],
                  [countries |-> BaseCountries, leagues |-> BaseLeagues]} :
           countries = st.countries /\ leagues = st.leagues
    /\ \E lst \in LeagueListings :
           upstream = [leagues |-> lst, country |-> "England", teams |-> <<>>]
    /\ teams = {}
    /\ runs_left = MaxRuns
    /\ irun = NoRun /\ trun = NoRun

\* The remote source serves the teams of one stored country; team 1 may already
\* be stored under the other country.
StoreTeamsInit ==
    /\ countries = BaseCountries /\ leagues = BaseLeagues
    /\ \E c \in {"England", "Spain"}, rows \in TeamSeqs :
           upstream = [leagues |-> <<>>, country |-> c, teams |-> rows]
    /\ teams \in {{}, {Team(1, "Spain")}}
    /\ runs_left = MaxRuns
    /\ irun = NoRun /\ trun = NoRun

\* One run of the init_data command against the listing the source serves.
RunInitData ==
    /\ runs_left > 0
    /\ \E fetch \in {"ok", "raised"}, batch \in 1..MaxInitBatch :
         \E out \in {Handle(fetch, upstream.leagues, batch, countries, leagues)} :
             /\ countries' = out.countries
             /\ leagues' = out.leagues
             /\ irun' = [kind |-> "run", fetch |-> fetch, batch |-> batch,
                         raised |-> out.raised, skipped |-> out.skipped,
                         before_countries |-> countries, before_leagues |-> leagues,
                         after_complete |-> irun.kind = "run" /\ irun.raised = "none"]
    /\ runs_left' = runs_left - 1
    /\ UNCHANGED <<upstream, trun>>
    /\ UNCHANGED <<pvars, dvars, lvars, rvars, tvars, wvars>>

\* One run of _process_single_country for the country the source serves, as
\* populate_teams_task calls it for a name it resolved.
RunTeamSync ==
    /\ runs_left > 0
    /\ upstream.country \in StoredCountries
    /\ \E kind \in {"list", "transport_error"} :
         LET resp == [kind |-> kind,
                      rows |-> IF kind = "list" THEN upstream.teams ELSE <<>>]
         IN  \E db \in TeamDbOutcomesFor(resp) :
               \E out \in {ProcessSingleCountry(0, upstream.country, resp, db, teams)} :
                   /\ teams' = out.teams
                   /\ trun' = [kind |-> "run", resp |-> kind, db |-> db,
                               raised |-> out.raised, calls |-> out.calls,
                               before |-> teams,
                               after_complete |-> trun.kind = "run" /\ trun.raised = "none"]
    /\ runs_left' = runs_left - 1
    /\ UNCHANGED <<countries, leagues, upstream, irun>>
    /\ UNCHANGED <<c_pc, c_args, c_retries, c_idx, c_result, c_execs, c_invoked, csync>>
    /\ UNCHANGED <<pvars, dvars, lvars, rvars, wvars>>

StoreNext ==
    \/ RunInitData
    \/ RunTeamSync

-----------------------------------------------------------------------------
(* Two workers that write the same keys at the same time. Each write runs in
   a transaction of its own: a statement sees the committed rows and the
   transaction's own writes, its writes become visible to the other worker at
   the commit, and a statement that meets a row the other transaction has
   written and not yet committed waits for that commit. *)

Workers == {1, 2}
Other(w) == CHOOSE o \in Workers : o # w

NoTx == [count |-> 0, targets |-> {}, deleted |-> {}, inserted |-> {}]
NoResult == [raised |-> "none", calls |-> <<>>]

RaceIdle ==
    /\ w_pc = [w \in Workers |-> "done"]
    /\ w_job = [w \in Workers |-> [kind |-> "none"]]
    /\ w_tx = [w \in Workers |-> NoTx]
    /\ w_out = [w \in Workers |-> NoResult]
    /\ w_order = <<>>

\* Both workers are in _process_single_country, each with the response of its
\* country (a list of team ids), about to call bulk_create.
RaceTeamsInit ==
    /\ \E c1, c2 \in {"England", "Spain"},
          r1, r2 \in UNION {[1..n -> {1, 2}] : n \in 1..MaxRows} :
           w_job = (1 :> [kind |-> "teams", country |-> c1, rows |-> r1])
                   @@ (2 :> [kind |-> "teams", country |-> c2, rows |-> r2])
    /\ w_pc = [w \in Workers |-> "insert"]
    /\ w_tx = [w \in Workers |-> NoTx]
    /\ w_out = [w \in Workers |-> NoResult]
    /\ w_order = <<>>
    /\ teams = {} /\ snapshots = {}

\* Both workers are in _process_single_league for the same league, each with
\* its table_list built (rows of stored teams that carry a rank), about to
\* enter the atomic block.
RaceStandingsInit ==
    /\ \E r1, r2 \in UNION {[1..n -> {row \in Rows : row.team \in {1, 2} /\ HasRank(row)}]
                             : n \in 1..MaxRows} :
           w_job = (1 :> [kind |-> "standings", league |-> ReplaceLeague, rows |-> r1])
                   @@ (2 :> [kind |-> "standings", league |-> ReplaceLeague, rows |-> r2])
    /\ w_pc = [w \in Workers |-> "count"]
    /\ w_tx = [w \in Workers |-> NoTx]
    /\ w_out = [w \in Workers |-> NoResult]
    /\ w_order = <<>>
    /\ teams = BaseTeams
    /\ snapshots \in {{}, {Snapshot(ReplaceLeague, [team |-> 1, rank |-> 1])}}

\* What a step of a racing worker leaves alone outside the store.
race_frame == <<t_pc, t_args, t_retries, t_idx, t_result, t_execs, t_invoked, sync,
                c_pc, c_args, c_retries, c_idx, c_result, c_execs, c_invoked, csync,
                pvars, dvars, rvars, svars>>

\* What a statement of w's transaction sees.
TeamsView(w) == teams \cup w_tx[w].inserted
SnapshotsView(w) == (snapshots \ w_tx[w].deleted) \cup w_tx[w].inserted

\* Uncommitted rows of the other transaction that a row of `new` collides with.
TeamLocked(w, new) ==
    \E x \in w_tx[Other(w)].inserted : \E k \in 1..Len(new) : new[k].id = x.id
SnapshotLocked(w, new) ==
    \E x \in w_tx[Other(w)].inserted \cup w_tx[Other(w)].deleted :
        \E k \in 1..Len(new) : Conflicts({x}, new[k])

\* ignore_conflicts=True: a row that meets a stored id is left out, no error.
ConflictErrorStrict(tms, new) ==
    IF \E x \in tms : \E k \in 1..Len(new) : new[k].id = x.id
      THEN "IntegrityError" ELSE "none"
ConflictError(tms, new) == "none"

\* Team.objects.bulk_create(teams, batch_size=500, ignore_conflicts=True) of
\* worker w, and the handler of _process_single_country when it raises.
RaceInsertTeams(w) ==
    LET new == TeamsOf(w_job[w].country, w_job[w].rows)
        err == ConflictError(TeamsView(w), new)
        body == CountryOutcome(teams, <<>>, err)
        out == IF err = "none" THEN body ELSE OnCountryException(0, body)
    IN  /\ w_pc[w] = "insert" /\ w_job[w].kind = "teams"
        /\ ~TeamLocked(w, new)
        /\ IF err = "none"
             THEN /\ w_tx' = [w_tx EXCEPT ![w].inserted =
                                  BulkCreateTeams(TeamsView(w), new) \ teams]
                  /\ w_pc' = [w_pc EXCEPT ![w] = "commit"]
             ELSE /\ w_tx' = w_tx
                  /\ w_pc' = [w_pc EXCEPT ![w] = "done"]
        /\ w_out' = [w_out EXCEPT ![w] = [raised |-> out.raised, calls |-> out.calls]]
        /\ UNCHANGED <<teams, snapshots, w_job, w_order, race_frame>>

\* The statement's transaction commits.
RaceCommitTeams(w) ==
    /\ w_pc[w] = "commit" /\ w_job[w].kind = "teams"
    /\ teams' = TeamsView(w)
    /\ w_tx' = [w_tx EXCEPT ![w] = NoTx]
    /\ w_pc' = [w_pc EXCEPT ![w] = "done"]
    /\ w_order' = Append(w_order, w)
    /\ UNCHANGED <<snapshots, w_job, w_out, race_frame>>

\* existing_count = ...filter(league=league, season=league.season).count()
\* if existing_count > 0:
RaceCount(w) ==
    /\ w_pc[w] = "count"
    /\ LET n == Cardinality(Existing(SnapshotsView(w), w_job[w].league))
       IN  /\ w_tx' = [w_tx EXCEPT ![w].count = n]
           /\ w_pc' = [w_pc EXCEPT ![w] = IF n > 0 THEN "delete" ELSE "insert"]
    /\ UNCHANGED <<teams, snapshots, w_job, w_out, w_order, race_frame>>

\* ...filter(league=league, season=league.season).delete(): the statement
\* selects the rows it sees,
RaceDeleteStart(w) ==
    /\ w_pc[w] = "delete"
    /\ w_tx' = [w_tx EXCEPT ![w].targets = Existing(SnapshotsView(w), w_job[w].league)]
    /\ w_pc' = [w_pc EXCEPT ![w] = "deleting"]
    /\ UNCHANGED <<teams, snapshots, w_job, w_out, w_order, race_frame>>

\* waits while the other transaction holds one of them, and deletes those that
\* are still there.
RaceDeleteEnd(w) ==
    /\ w_pc[w] = "deleting"
    /\ w_tx[Other(w)].deleted \cap w_tx[w].targets = {}
    /\ w_tx' = [w_tx EXCEPT ![w].deleted = w_tx[w].targets \cap snapshots]
    /\ w_pc' = [w_pc EXCEPT ![w] = "insert"]
    /\ UNCHANGED <<teams, snapshots, w_job, w_out, w_order, race_frame>>

\* LeagueTableSnapshot.objects.bulk_create(table_list, ignore_conflicts=True)
RaceInsertSnapshots(w) ==
    LET table_list == TableList(w_job[w].league, w_job[w].rows)
        view == SnapshotsView(w)
    IN  /\ w_pc[w] = "insert" /\ w_job[w].kind = "standings"
        /\ ~SnapshotLocked(w, table_list)
        /\ w_tx' = [w_tx EXCEPT ![w].inserted =
                        BulkCreateIgnoreConflicts(view, table_list) \ view]
        /\ w_pc' = [w_pc EXCEPT ![w] = "commit"]
        /\ UNCHANGED <<teams, snapshots, w_job, w_out, w_order, race_frame>>

\* The atomic block is left: the transaction commits.
RaceCommitSnapshots(w) ==
    /\ w_pc[w] = "commit" /\ w_job[w].kind = "standings"
    /\ snapshots' = SnapshotsView(w)
    /\ w_tx' = [w_tx EXCEPT ![w] = NoTx]
    /\ w_pc' = [w_pc EXCEPT ![w] = "done"]
    /\ w_order' = Append(w_order, w)
    /\ UNCHANGED <<teams, w_job, w_out, race_frame>>

RaceNext ==
    \/ \E w \in Workers : RaceInsertTeams(w)
    \/ \E w \in Workers : RaceCommitTeams(w)
    \/ \E w \in Workers : RaceCount(w)
    \/ \E w \in Workers : RaceDeleteStart(w)
    \/ \E w \in Workers : RaceDeleteEnd(w)
    \/ \E w \in Workers : RaceInsertSnapshots(w)
    \/ \E w \in Workers : RaceCommitSnapshots(w)

-----------------------------------------------------------------------------
(* Specifications *)

InitPartition ==
    /\ PartitionInit /\ DispatchIdle /\ LeagueIdle /\ ReplaceIdle /\ TeamIdle /\ StoreIdle
    /\ RaceIdle
SpecPartition == InitPartition /\ [][PartitionStep]_vars

InitDispatch ==
    /\ DispatchInit /\ PartitionIdle /\ LeagueIdle /\ ReplaceIdle /\ TeamIdle /\ StoreIdle
    /\ RaceIdle
SpecDispatch == InitDispatch /\ [][DispatchNext]_vars

\* Workers keep consuming the broker list.
FairSpecDispatch == SpecDispatch /\ WF_vars(WorkerTake)

\* The command keeps running: its loop takes its next step, whatever the workers do.
FairSpecCommand ==
    SpecDispatch /\ WF_vars(DryRunStep \/ CheckQueue \/ CheckQueueRaises \/ Submit \/ Summary)

InitLeague ==
    /\ LeagueInit /\ PartitionIdle /\ ReplaceIdle /\ TeamsStored /\ StoreIdle
    /\ RaceIdle
SpecLeague == InitLeague /\ [][LeagueNext]_vars

InitReplace ==
    /\ LeagueIdle /\ ReplaceIdle /\ DispatchIdle /\ PartitionIdle /\ TeamsStored /\ StoreIdle
    /\ RaceIdle
SpecReplace == InitReplace /\ [][RunSync]_vars

InitTeam ==
    /\ TeamInit /\ LeagueIdle /\ ReplaceIdle /\ PartitionIdle /\ StoreIdle
    /\ RaceIdle
SpecTeam == InitTeam /\ [][TeamNext]_vars

\* Both batch workers: the broker list holds a message of either task, and the
\* worker runs the task the message names.
InitWorkers == InitLeague \/ InitTeam

\* Runs of init_data and of the team sync over one store.
InitStore ==
    /\ StoreDataInit \/ StoreTeamsInit
    /\ TeamTaskIdle /\ LeagueIdle /\ ReplaceIdle /\ DispatchIdle /\ PartitionIdle
    /\ RaceIdle
SpecStore == InitStore /\ [][StoreNext]_vars

\* Two workers racing on the same keys.
InitRace ==
    /\ StoreIdle /\ LeagueTaskIdle /\ TeamTaskIdle
    /\ ReplaceIdle /\ DispatchIdle /\ PartitionIdle
    /\ RaceTeamsInit \/ RaceStandingsInit
SpecRace == InitRace /\ [][RaceNext]_vars

\* Every operation that writes the store: init_data, the team sync, the workers.
InitIntegrity == InitStore \/ InitLeague \/ InitTeam
IntegrityNext == StoreNext \/ LeagueNext \/ TeamNext
SpecIntegrity == InitIntegrity /\ [][IntegrityNext]_vars

WorkersNext == LeagueNext \/ TeamNext
SpecWorkers == InitWorkers /\ [][WorkersNext]_vars

\* The chain of executions of one unit: the broker list holds the unit's first
\* message, the worker takes the oldest message, runs it, and the re-invocations
\* the execution requests join the list. The unit names one stored key. A
\* standings unit starts with the dispatcher's message; a team unit with the
\* message a first failed attempt left.
InitChain ==
    \/ /\ InitLeague
       /\ queue[1].retries = 0
       /\ Cardinality({k \in 1..Len(queue[1].args) : queue[1].args[k] \in StoredLeagues}) = 1
    \/ /\ InitTeam
       /\ queue[1].retries >= 1
       /\ Cardinality({k \in 1..Len(queue[1].args) : queue[1].args[k] \in StoredCountries}) = 1
ChainNext ==
    \/ StartTask(1, MaxChainExecs)
    \/ StartTaskLookupRaises(1, MaxChainExecs)
    \/ SkipUnknownLeague
    \/ SyncLeague
    \/ FinishTask
    \/ StartTeamTask(1, MaxChainExecs)
    \/ StartTeamTaskLookupRaises(1, MaxChainExecs)
    \/ SkipUnknownCountry
    \/ SyncCountry
    \/ FinishTeamTask
SpecChain == InitChain /\ [][ChainNext]_vars

\* The worker keeps taking messages and running the task it has entered.
FairSpecChain == SpecChain /\ WF_vars(ChainNext)

\* The chain of executions of one team unit, from the dispatcher's message on,
\* while the remote source's data stays the same.
InitRetry == InitTeam /\ queue[1].retries = 0
RetryNext ==
    \/ StartTeamTask(1, MaxChainExecs)
    \/ StartTeamTaskLookupRaises(1, MaxChainExecs)
    \/ SkipUnknownCountry
    \/ SyncCountryFrom(UnchangedTeamResponses)
    \/ FinishTeamTask
SpecRetry == InitRetry /\ [][RetryNext]_vars

-----------------------------------------------------------------------------
(* Properties of the chunking loop and of the dispatcher *)

\* ceil(n / b), defined without the code's arithmetic
CeilDiv(n, b) == CHOOSE q \in 0..n : q * b >= n /\ (q = 0 \/ (q - 1) * b < n)

Sizes(ss) == [k \in 1..Len(ss) |-> Len(ss[k])]

IsCheck(e)      == e.ev = "check" /\ e.outcome = "read"
IsFullCheck(e)  == IsCheck(e) /\ e.size >= max_queue
IsBelowCheck(e) == IsCheck(e) /\ e.size < max_queue
IsWaitSleep(e)  == e.ev = "sleep" /\ e.t = wait_time * 10
IsSubmit(e)     == e.ev = "submit"
IsFailure(e)    == e.outcome \in {"raised", "ConnectionError", "TimeoutError", "Exception"}

\* The messages the broker accepted, in submission order.
RECURSIVE Accepted(_)
Accepted(evs) ==
    IF evs = <<>> THEN <<>>
    ELSE LET e == Head(evs) IN
         (IF IsSubmit(e) /\ e.outcome = "ok"
            THEN <<Message(cmd, Slice(keys, e.i, e.i + batch_size))>>
            ELSE <<>>) \o Accepted(Tail(evs))

FailCount == Cardinality({k \in 1..Len(events) : IsFailure(events[k])})

\* C1: a queue-depth check at or above the ceiling is followed by the sleep and
\* then by a recheck of the same batch: the dispatcher does not advance, so no
\* batch is skipped because the queue was full.
C1_QueueFullRechecksSameBatch ==
    \A k \in 1..Len(events) :
        IsWaitSleep(events[k]) =>
            IF k = Len(events)
              THEN pc = "loop" /\ i = events[k].i
              ELSE events[k + 1].ev = "check" /\ events[k + 1].i = events[k].i

\* C2: a batch is submitted only directly after a depth check for that batch
\* that read a value strictly below the ceiling; a check that reads a value at
\* or above the ceiling is followed by exactly one sleep of the wait time and
\* by no submission.
C2_SubmitOnlyBelowCeiling ==
    /\ \A k \in 1..Len(events) :
           IsSubmit(events[k]) =>
               /\ k > 1
               /\ IsBelowCheck(events[k - 1])
               /\ events[k - 1].i = events[k].i
    /\ \A k \in 1..Len(events) :
           IsFullCheck(events[k]) =>
               /\ k < Len(events)
               /\ events[k + 1] = SleepEv(events[k].i, wait_time * 10)
               /\ k + 2 <= Len(events) => events[k + 2].ev \notin {"sleep", "submit"}
    /\ \A k \in 1..Len(events) :
           IsWaitSleep(events[k]) => k > 1 /\ IsFullCheck(events[k - 1])
    /\ pc = "submit" =>
           /\ events # <<>>
           /\ IsBelowCheck(events[Len(events)])
           /\ events[Len(events)].i = i

\* The gauge sequence [ceiling, below]: the first check sleeps, the second submits.
C2_Witness ==
    \E k \in 1..Len(events) :
        /\ k + 3 <= Len(events)
        /\ IsCheck(events[k]) /\ events[k].size = max_queue
        /\ IsWaitSleep(events[k + 1])
        /\ IsBelowCheck(events[k + 2])
        /\ IsSubmit(events[k + 3]) /\ events[k + 3].outcome = "ok"

\* C3: the loop yields ceil(N/B) consecutive chunks whose concatenation is the
\* key list; every chunk but the last holds exactly B keys, the last between 1
\* and B; an empty list yields no chunk (7 keys: B=3 gives 3,3,1; B=5 gives 5,2).
C3_Partition ==
    LET n == Len(p_keys)
        b == p_batch_size
        m == Len(p_chunks)
    IN  /\ \A k \in 1..m : p_chunks[k] = SubSeq(p_keys, (k - 1) * b + 1, Min(k * b, n))
        /\ PartitionDone =>
             /\ m = CeilDiv(n, b)
             /\ m = total_batches_of(n, b)
             /\ Flatten(p_chunks) = p_keys
             /\ \A k \in 1..(m - 1) : Len(p_chunks[k]) = b
             /\ m > 0 => Len(p_chunks[m]) \in 1..b
             /\ n = 0 => p_chunks = <<>>
             /\ (n = 7 /\ b = 3) => Sizes(p_chunks) = <<3, 3, 1>>
             /\ (n = 7 /\ b = 5) => Sizes(p_chunks) = <<5, 2>>

C3_Witness ==
    /\ PartitionDone
    /\ Len(p_keys) = 7 /\ p_batch_size = 3
    /\ Sizes(p_chunks) = <<3, 3, 1>>

ConnectionAborted ==
    events # <<>> /\ IsSubmit(events[Len(events)])
                  /\ events[Len(events)].outcome = "ConnectionError"

\* C4: a connection-class failure of a submission is counted once and ends the
\* loop: it is the dispatcher's last event. The batches accepted before it stay
\* on the broker list until a worker takes them, and every one of them is
\* eventually executed.
C4_ConnectionFailureAborts ==
    /\ [](\A k \in 1..Len(events) :
              (IsSubmit(events[k]) /\ events[k].outcome = "ConnectionError") =>
                  /\ k = Len(events)
                  /\ pc = "done"
                  /\ i = events[k].i
                  /\ failed_batches = FailCount
                  /\ executed \o queue = Accepted(events))
    /\ (ConnectionAborted ~> (queue = <<>> /\ executed = Accepted(events)))

C4_Witness ==
    /\ ConnectionAborted
    /\ events[Len(events)].i + batch_size < Len(keys)
    /\ Accepted(events) # <<>>
    /\ queue = <<>>
    /\ executed = Accepted(events)

\* C5: a timeout-class or any other non-connection failure of a submission is
\* counted once, the batch is not submitted again, and the loop goes on with
\* the next batch: when the loop ends without a connection failure, every
\* later batch has been visited.
C5_OtherFailureContinues ==
    \A k \in 1..Len(events) :
        (IsSubmit(events[k]) /\ events[k].outcome \in {"TimeoutError", "Exception"}) =>
            /\ failed_batches = FailCount
            /\ \A j \in 1..Len(events) :
                   (j # k /\ IsSubmit(events[j])) => events[j].i # events[k].i
            /\ IF k = Len(events)
                 THEN /\ i = events[k].i + batch_size
                      /\ pc \in {"loop", "done"}
                      /\ InRange(i, Len(keys)) => pc = "loop"
                 ELSE /\ events[k + 1].ev = "check"
                      /\ events[k + 1].i = events[k].i + batch_size
            /\ (pc = "done" /\ ~ConnectionAborted) =>
                   \A a \in (events[k].i + 1)..(Len(keys) - 1) :
                       a % batch_size = 0 =>
                           \E j \in (k + 1)..Len(events) :
                               events[j].ev = "check" /\ events[j].i = a

C5_Witness ==
    \E k \in 1..Len(events) :
        /\ k + 2 <= Len(events)
        /\ IsSubmit(events[k]) /\ events[k].outcome = "TimeoutError"
        /\ IsBelowCheck(events[k + 1])
        /\ events[k + 1].i = events[k].i + batch_size
        /\ IsSubmit(events[k + 2]) /\ events[k + 2].outcome = "ok"
        /\ failed_batches = 1

-----------------------------------------------------------------------------
(* Properties of _process_single_league: `sync` describes the invocation that
   the last step made *)

Invoked == sync.kind # "none"
WithinBudget == Invoked /\ sync.retries < max_retries

\* Exceptions that are no requests.RequestException and no retry signal.
NonTransportErrors == {"Exception", "AttributeError", "TypeError", "KeyError", "DatabaseError"}

\* C6: with retries below the maximum, a response that is absent, has
\* results == 0 or whose payload is not a list makes the invocation call
\* task.retry exactly once (the next attempt is sent) and write nothing.
C6_MalformedResponseRetriesOnce ==
    (WithinBudget /\ sync.kind \in {"absent", "zero_results", "not_a_list"}) =>
        /\ Len(sync.calls) = 1
        /\ sync.calls[1].sent
        /\ sync.calls[1].retries = sync.retries + 1
        /\ snapshots = sync.before

C6_Witness ==
    /\ WithinBudget /\ sync.kind = "zero_results"
    /\ Len(sync.calls) = 1
    /\ snapshots # {} /\ snapshots = sync.before

\* C7: a well-formed response whose nested standings array cannot be located
\* (missing key, empty list) makes no retry call, returns normally to the task,
\* which goes on with its batch, and leaves the store unchanged.
C7_StandingsNotFoundNoRetry ==
    (Invoked /\ sync.kind \in {"empty_response", "no_standings", "empty_standings"}) =>
        /\ sync.calls = <<>>
        /\ sync.raised = "none"
        /\ t_pc = "loop"
        /\ snapshots = sync.before

C7_Witness ==
    /\ WithinBudget /\ sync.kind = "no_standings"
    /\ sync.calls = <<>> /\ sync.raised = "none"
    /\ snapshots # {} /\ snapshots = sync.before

\* C8: with retries below the maximum, a transport-layer error raised by the
\* league-table fetch makes the invocation call task.retry exactly once.
C8_TransportErrorRetriesOnce ==
    (WithinBudget /\ sync.kind = "transport_error") =>
        /\ sync.body_raised = "RequestException"
        /\ Len(sync.calls) = 1
        /\ sync.calls[1].sent
        /\ sync.calls[1].retries = sync.retries + 1

C8_Witness ==
    /\ WithinBudget /\ sync.kind = "transport_error"
    /\ Len(sync.calls) = 1
    /\ sync.raised = "Retry"

\* C9: an exception that is no transport-layer error, raised during fetch,
\* transformation or persistence, makes the invocation call task.retry zero
\* times; so does every response that reaches the transformation.
C9_OtherExceptionNoRetry ==
    (Invoked /\ (\/ sync.body_raised \in NonTransportErrors
                 \/ sync.kind \in {"empty_response", "no_standings", "empty_standings",
                                   "bad_element", "table"})) =>
        sync.calls = <<>>

C9_Witness ==
    /\ WithinBudget /\ sync.kind = "table"
    /\ sync.db_raised /\ sync.body_raised = "DatabaseError"
    /\ sync.calls = <<>>

\* C10: when the persistence step raises, the exception is re-raised to the
\* caller of _process_single_league: the task sees the invocation fail.
C10_PersistenceErrorReraised ==
    (Invoked /\ sync.db_raised) => sync.raised = "DatabaseError"

-----------------------------------------------------------------------------
(* Properties of both per-entity syncs and of the batch workers: `csync`
   describes the last _process_single_country invocation *)

CountryInvoked == csync.kind # "none"
CountryWithinBudget == CountryInvoked /\ csync.retries < max_retries

\* C11: in both per-entity syncs, an invocation entered with
\* retries >= max_retries returns normally: the remote source is not called,
\* nothing is written, no retry is requested, and the worker goes on with its
\* batch.
C11_ExhaustedBudgetReturns ==
    /\ (Invoked /\ sync.retries >= max_retries) =>
           /\ ~sync.fetched
           /\ sync.calls = <<>> /\ sync.raised = "none"
           /\ snapshots = sync.before
           /\ t_pc = "loop" /\ t_result = "none"
    /\ (CountryInvoked /\ csync.retries >= max_retries) =>
           /\ ~csync.fetched
           /\ csync.calls = <<>> /\ csync.raised = "none"
           /\ teams = csync.before
           /\ c_pc = "loop" /\ c_result = "none"

C11_Witness ==
    /\ CountryInvoked /\ csync.retries = max_retries
    /\ csync.kind = "list" /\ csync.rows = <<1>> /\ csync.db = "ok"
    /\ ~csync.fetched /\ teams = {} /\ queue = <<>>

-----------------------------------------------------------------------------
(* Properties of successive standings syncs of one league: `run` describes the
   last run, run.before the store it started from *)

HasRun == run.kind # "none"

\* The positions of the rows a snapshot is built from: the team is stored and
\* the row carries the fields the snapshot reads.
ValidRows(rows) ==
    {k \in 1..Len(rows) : rows[k].team \in StoredTeams /\ rows[k].rank # 0}

\* The valid rows that are the first of their team in the payload.
FirstOfTeam(rows) ==
    {k \in ValidRows(rows) : \A j \in ValidRows(rows) : rows[j].team = rows[k].team => k <= j}

\* The (league, season) pair the runs are about.
OfPair(snaps) ==
    {x \in snaps : x.league = ReplaceLeague /\ x.season = LeagueSeason[ReplaceLeague]}

\* The snapshot of a row: the row's own values, 0 for a statistic and "" for
\* the form the row lacks.
SnapshotOfRow(row) ==
    LET d == RowData(row.team)
        stat(v) == IF v = Absent THEN 0 ELSE v
    IN  [league |-> ReplaceLeague, season |-> LeagueSeason[ReplaceLeague],
         team |-> row.team, rank |-> row.rank,
         points |-> d.points, goal_difference |-> d.goalsDiff,
         goals_for |-> stat(d.for), goals_against |-> stat(d.against),
         matches_played |-> stat(d.played), wins |-> stat(d.win),
         draws |-> stat(d.draw), losses |-> stat(d.lose),
         last_five |-> IF d.form = "absent" THEN "" ELSE d.form]

\* The run fetched a standings array with at least one valid row and the
\* database did not fail.
RunWithValidRows ==
    /\ HasRun /\ run.kind = "table" /\ run.db = "ok"
    /\ ValidRows(run.rows) # {}

C13_NoValidRowsNoWrite ==
    /\ (HasRun /\ (\/ run.kind = "empty_standings"
                   \/ run.kind = "table" /\ ValidRows(run.rows) = {})) =>
           snapshots = run.before
    /\ (HasRun /\ OfPair(run.before) # {}) => OfPair(snapshots) # {}

C13_Witness ==
    /\ HasRun /\ run.kind = "table"
    /\ run.rows = <<[team |-> 3, rank |-> 1]>>
    /\ OfPair(run.before) # {}
    /\ snapshots = run.before

\* C14: the delete and the insert of a run commit together or not at all. When
\* bulk_create raises after the delete, the store is as before the run; every
\* run either leaves the store untouched or leaves the pair holding the new
\* set, never the pair emptied.
C14_ReplaceIsAtomic ==
    /\ (HasRun /\ run.db = "insert_fails") =>
           /\ run.db_raised
           /\ snapshots = run.before
    /\ HasRun =>
           \/ snapshots = run.before
           \/ /\ OfPair(snapshots) # {}
              /\ OfPair(snapshots) = {SnapshotOfRow(run.rows[k]) : k \in FirstOfTeam(run.rows)}
              /\ snapshots \ OfPair(snapshots) = run.before \ OfPair(run.before)

C14_Witness ==
    /\ HasRun /\ run.db = "insert_fails" /\ run.db_raised
    /\ run.rows = <<[team |-> 2, rank |-> 2]>>
    /\ OfPair(run.before) = {SnapshotOfRow([team |-> 1, rank |-> 1])}
    /\ snapshots = run.before

\* The positions of the rows whose team id is in the Team store.
PresentRows(rows) == {k \in 1..Len(rows) : rows[k].team \in StoredTeams}

-----------------------------------------------------------------------------
(* Properties of the batch workers *)

Resolved(args, store) == SelectSeq(args, LAMBDA k : k \in store)

\* The execution got past the bulk lookup and has ended.
LeagueLoopEnded == t_pc = "idle" /\ (t_result = "SUCCESS" \/ t_invoked # <<>>)
CountryLoopEnded == c_pc = "idle" /\ (c_result = "SUCCESS" \/ c_invoked # <<>>)

\* The last per-entity sync of the execution raised to the task.
LeagueSyncRaised == t_pc = "idle" /\ t_result \in {"RETRY", "FAILURE"} /\ t_invoked # <<>>
CountrySyncRaised == c_pc = "idle" /\ c_result \in {"RETRY", "FAILURE"} /\ c_invoked # <<>>

\* C16 as stated: an execution that resolved its batch has invoked the
\* per-entity sync exactly once for each resolved key, in batch order, and for
\* no other key.
C16_EveryResolvedKeySynced ==
    /\ LeagueLoopEnded => t_invoked = Resolved(t_args, StoredLeagues)
    /\ CountryLoopEnded => c_invoked = Resolved(c_args, StoredCountries)

\* C16 (amended): the per-entity sync is invoked once for each resolved key, in
\* batch order, up to and including the first key whose sync raises, and never
\* for an unresolved key; an execution in which no sync raises has invoked it
\* for every resolved key. The step that skips an unresolved key raises
\* nothing, requests no retry and writes nothing.
C16_ResolvedKeysSyncedInOrder ==
    /\ [](/\ t_invoked = Resolved(SubSeq(t_args, 1, IF LeagueSyncRaised THEN t_idx ELSE t_idx - 1),
                                  StoredLeagues)
          /\ c_invoked = Resolved(SubSeq(c_args, 1, IF CountrySyncRaised THEN c_idx ELSE c_idx - 1),
                                  StoredCountries)
          /\ t_result = "SUCCESS" => t_invoked = Resolved(t_args, StoredLeagues)
          /\ c_result = "SUCCESS" => c_invoked = Resolved(c_args, StoredCountries))
    /\ [][(t_pc = "loop" /\ t_idx <= Len(t_args) /\ t_args[t_idx] \notin StoredLeagues) =>
              /\ t_pc' = "loop" /\ t_idx' = t_idx + 1 /\ t_result' = t_result
              /\ t_invoked' = t_invoked /\ queue' = queue /\ snapshots' = snapshots]_vars
    /\ [][(c_pc = "loop" /\ c_idx <= Len(c_args) /\ c_args[c_idx] \notin StoredCountries) =>
              /\ c_pc' = "loop" /\ c_idx' = c_idx + 1 /\ c_result' = c_result
              /\ c_invoked' = c_invoked /\ queue' = queue /\ teams' = teams]_vars

C16_Witness ==
    /\ t_result = "SUCCESS"
    /\ t_args = <<UnknownLeague, 1>>
    /\ t_invoked = <<1>>
    /\ queue = <<>>

\* The execution has ended by raising to the task runtime.
LeagueExecutionRaised == t_pc = "idle" /\ t_result \in {"RETRY", "FAILURE"}
CountryExecutionRaised == c_pc = "idle" /\ c_result \in {"RETRY", "FAILURE"}

\* The delays of the backoff schedule, by the retry count of the failing execution.
BackoffSchedule == (0 :> 5) @@ (1 :> 10) @@ (2 :> 20)

\* C17: an execution of populate_standings_task that raises with retry count r
\* leaves the unit rescheduled with retry count r + 1 and delay 5 * 2^r (5, 10,
\* 20), so that the delays along a chain strictly increase; an execution with
\* r = 3 reschedules nothing. The broker list holds what the execution sent.
C17_RescheduledWithBackoff ==
    (t_execs = 1 /\ LeagueExecutionRaised) =>
        IF t_retries < max_retries
          THEN /\ queue # <<>>
               /\ \A k \in 1..Len(queue) :
                      /\ queue[k].args = t_args
                      /\ queue[k].retries = t_retries + 1
                      /\ queue[k].countdown = BackoffSchedule[t_retries]
          ELSE queue = <<>>

\* C18: an execution of populate_teams_task that raises with retry count r < 3
\* has requested one retry of its unit: the broker list holds one message of
\* the unit, with retry count r + 1 and the fixed delay 5; with r = 3 nothing
\* is rescheduled.
C18_TeamBatchRetriedOnce ==
    (c_execs = 1 /\ CountryExecutionRaised) =>
        IF c_retries < max_retries
          THEN queue = <<[task |-> "populate_teams_task", args |-> c_args,
                          retries |-> c_retries + 1, countdown |-> 5]>>
          ELSE queue = <<>>

\* What the fetch (get_team_details) and the transform loop can raise.
FetchOrTransformErrors == {"RequestException", "Exception", "AttributeError"}

\* C19: with retries below the maximum, an invocation of
\* _process_single_country whose response is absent or carries no list, or
\* whose fetch or transform raises, requests a retry of the unit (a message
\* with retry count r + 1 is on the broker list) and writes no Team row.
C19_TeamSyncFailureRetries ==
    (CountryWithinBudget /\ (\/ csync.kind \in {"absent", "not_a_list"}
                             \/ csync.body_raised \in FetchOrTransformErrors)) =>
        /\ Len(csync.calls) >= 1
        /\ \A k \in 1..Len(csync.calls) :
               csync.calls[k].sent /\ csync.calls[k].retries = csync.retries + 1
        /\ \E k \in 1..Len(queue) :
               /\ queue[k].task = "populate_teams_task"
               /\ queue[k].args = c_args
               /\ queue[k].retries = csync.retries + 1
        /\ csync.raised = "Retry"
        /\ teams = csync.before

C19_Witness ==
    /\ CountryWithinBudget /\ csync.kind = "list"
    /\ csync.rows = <<1, NotADict>>
    /\ csync.body_raised = "AttributeError"
    /\ Len(csync.calls) = 1
    /\ teams = {}

-----------------------------------------------------------------------------
(* Properties of the dispatcher in dry-run mode *)

\* C20: in dry-run mode the dispatcher visits the batches in order and counts
\* each one; it reads no queue depth and submits nothing, so the broker list
\* and the store stay as they were; at the summary every batch has been
\* counted.
C20_DryRunTouchesNothing ==
    dry_run =>
        /\ \A k \in 1..Len(events) : events[k] = DryEv((k - 1) * batch_size)
        /\ successful_batches = Len(events)
        /\ failed_batches = 0
        /\ i = Len(events) * batch_size
        /\ current_queue_size = -1
        /\ queue = <<>> /\ executed = <<>>
        /\ snapshots = {} /\ teams = {}
        /\ pc = "done" =>
               /\ successful_batches = CeilDiv(Len(keys), batch_size)
               /\ successful_batches = total_batches

C20_Witness ==
    /\ dry_run /\ pc = "done"
    /\ Len(keys) = 3 /\ batch_size = 2
    /\ successful_batches = 2
    /\ events = <<DryEv(0), DryEv(2)>>

-----------------------------------------------------------------------------
(* Properties of the dispatcher's pacing and of its summary *)

\* C21: after every accepted submission, in the team dispatcher and in the
\* standings dispatcher, the dispatcher sleeps the small fixed delay before its
\* next queue-depth check or submission: whatever the dispatcher does after the
\* submission, it sleeps the small delay first.
C21_SleepAfterEverySubmission ==
    \A k \in 1..(Len(events) - 1) :
        (IsSubmit(events[k]) /\ events[k].outcome = "ok") =>
            events[k + 1] = SleepEv(events[k].i, SmallDelayTenths)

IsAccepted(e) == IsSubmit(e) /\ e.outcome = "ok"
IsRaisedSubmit(e) == IsSubmit(e) /\ e.outcome # "ok"
IsTallied(e) == IsAccepted(e) \/ IsFailure(e) \/ e.ev = "dry"

CountEvents(P(_)) == Cardinality({k \in 1..Len(events) : P(events[k])})

\* C22 as stated: successful is the number of batches whose submission was
\* accepted, failed the number of batches whose submission raised, total is
\* ceil(N/B); no batch is in both tallies and successful + failed <= total.
C22_SummaryAsStated ==
    /\ successful_batches = CountEvents(IsAccepted)
    /\ failed_batches = CountEvents(IsRaisedSubmit)
    /\ total_batches = CeilDiv(Len(keys), batch_size)
    /\ successful_batches + failed_batches <= total_batches

\* C22 (amended): in a dispatch that submits, successful is the number of
\* batches whose submission was accepted and failed the number of batches whose
\* queue-depth query or submission raised; in a dry run successful is the number
\* of batches reported and failed is 0. total is ceil(N/B), every batch is
\* tallied at most once, and successful + failed <= total in every state.
C22_SummaryCounts ==
    /\ ~dry_run =>
         /\ successful_batches = CountEvents(IsAccepted)
         /\ failed_batches = CountEvents(IsFailure)
    /\ dry_run =>
         /\ successful_batches = CountEvents(LAMBDA e : e.ev = "dry")
         /\ failed_batches = 0
    /\ total_batches = CeilDiv(Len(keys), batch_size)
    /\ \A j, k \in 1..Len(events) :
           (j # k /\ IsTallied(events[j]) /\ IsTallied(events[k])) =>
               events[j].i # events[k].i
    /\ successful_batches + failed_batches <= total_batches

\* Three batches: one accepted, one whose depth query raised, one whose
\* submission raised; the summary reads 1 successful, 2 failed, 3 total.
C22_Witness ==
    /\ pc = "done" /\ ~dry_run
    /\ total_batches = 3
    /\ \E a, b, c \in 1..Len(events) :
           /\ IsAccepted(events[a])
           /\ events[b] = CheckRaisedEv(events[b].i)
           /\ IsRaisedSubmit(events[c])
    /\ successful_batches = 1 /\ failed_batches = 2

\* C23: every payload handed to .delay is a non-empty list of keys, and a key
\* list shorter than the batch size yields exactly one submission (in a
\* dispatch that submits and whose queue-depth queries answer).
C23_NoEmptyBatchOneSubmission ==
    /\ \A k \in 1..Len(events) :
           IsSubmit(events[k]) => Slice(keys, events[k].i, events[k].i + batch_size) # <<>>
    /\ \A k \in 1..Len(queue) : queue[k].args # <<>>
    /\ \A k \in 1..Len(executed) : executed[k].args # <<>>
    /\ (/\ pc = "done" /\ ~dry_run
        /\ Len(keys) > 0 /\ Len(keys) < batch_size
        /\ CountEvents(LAMBDA e : e.ev = "check" /\ e.outcome = "raised") = 0)
       => CountEvents(IsSubmit) = 1

\* C24: when the key-listing query raises, the key list is empty: the loop runs
\* over zero batches, no queue-depth query is made, nothing is submitted, and
\* the only step the dispatcher takes is the summary with successful = failed =
\* total = 0.
C24_ListingFailureIsEmptyDispatch ==
    /\ [](listing = "raised" =>
              /\ keys = <<>>
              /\ total_batches = 0
              /\ events = <<>>
              /\ current_queue_size = -1
              /\ queue = <<>> /\ executed = <<>>
              /\ successful_batches = 0 /\ failed_batches = 0
              /\ pc \in {"loop", "done"})
    /\ [][listing = "raised" => pc' = "done"]_vars

C24_Witness ==
    /\ listing = "raised" /\ pc = "done" /\ ~dry_run
    /\ successful_batches = 0 /\ failed_batches = 0 /\ total_batches = 0

-----------------------------------------------------------------------------
(* Properties of the store under successive syncs *)

InitDataRan == irun.kind = "run"
TeamSyncRan == trun.kind = "run"

\* The run followed a completed run over the same upstream data and its own
\* fetch answered.
SecondInitDataRun == InitDataRan /\ irun.after_complete /\ irun.fetch = "ok"
SecondTeamSync == TeamSyncRan /\ trun.after_complete /\ trun.resp = "list" /\ trun.db = "ok"

\* C25: a run of the team sync, or of init_data, that follows a completed run
\* over the same upstream data completes and leaves the store as it found it:
\* it inserts no row; and no store holds two rows with one id (one name, for
\* countries).
C25_SecondRunInsertsNothing ==
    /\ SecondInitDataRun =>
           /\ irun.raised = "none"
           /\ countries = irun.before_countries
           /\ leagues = irun.before_leagues
    /\ SecondTeamSync =>
           /\ trun.raised = "none"
           /\ teams = trun.before
    /\ \A x, y \in leagues : x.id = y.id => x = y
    /\ \A x, y \in teams : x.id = y.id => x = y
    /\ \A x, y \in countries : x.name = y.name => x = y

\* A listing of two leagues, one of them with the id of the other, run twice.
C25_Witness ==
    /\ SecondInitDataRun
    /\ Len(upstream.leagues) = 2
    /\ upstream.leagues[1].id = upstream.leagues[2].id
    /\ upstream.leagues[1] # upstream.leagues[2]
    /\ irun.before_leagues # {}
    /\ leagues = irun.before_leagues

\* C26: no step of a sync changes or deletes a stored Country, League or Team
\* row: every row of the store before the step is in the store after it, also
\* when the upstream data carries other field values for its key.
C26_ExistingRowsKept ==
    [][/\ countries \subseteq countries'
       /\ leagues \subseteq leagues'
       /\ teams \subseteq teams']_vars

\* The listing names a stored country with another code and a stored league id
\* with another name; the run completed and both rows are as they were.
C26_Witness ==
    /\ InitDataRan /\ irun.raised = "none"
    /\ \E c \in irun.before_countries : \E k \in 1..Len(upstream.leagues) :
           /\ upstream.leagues[k].country = c.name
           /\ upstream.leagues[k].code # c.code
           /\ c \in countries
    /\ \E l \in irun.before_leagues : \E k \in 1..Len(upstream.leagues) :
           /\ upstream.leagues[k].id = l.id
           /\ upstream.leagues[k].name # l.name
           /\ l \in leagues

\* C27: every League and every Team references a stored Country, every
\* StandingSnapshot a stored League and a stored Team; no step of the team sync
\* changes the Country rows and no step of the standings sync the League or the
\* Team rows; a step that meets a key the store lacks writes nothing.
C27_ReferencesResolved ==
    /\ [](/\ \A l \in leagues : l.country \in StoredCountries
          /\ \A t \in teams : t.country \in StoredCountries
          /\ \A x \in snapshots : x.league \in StoredLeagues /\ x.team \in StoredTeams)
    /\ [][(c_pc' # c_pc \/ c_idx' # c_idx \/ csync' # csync \/ trun' # trun) =>
              countries' = countries]_vars
    /\ [][(t_pc' # t_pc \/ t_idx' # t_idx \/ sync' # sync) =>
              (leagues' = leagues /\ teams' = teams)]_vars
    /\ [][(c_pc = "loop" /\ c_idx <= Len(c_args) /\ c_args[c_idx] \notin StoredCountries) =>
              (teams' = teams /\ countries' = countries)]_vars
    /\ [][(t_pc = "loop" /\ t_idx <= Len(t_args) /\ t_args[t_idx] \notin StoredLeagues) =>
              (snapshots' = snapshots /\ leagues' = leagues /\ teams' = teams)]_vars

\* A listing with a league that has no country and one that has: the first is
\* skipped, the second stored.
C27_Witness ==
    /\ InitDataRan /\ irun.raised = "none"
    /\ irun.skipped > 0
    /\ \E k \in 1..Len(upstream.leagues) : upstream.leagues[k].country = NullCountry
    /\ leagues # irun.before_leagues

-----------------------------------------------------------------------------
(* Properties of two workers writing the same keys *)

RaceOver == \A w \in Workers : w_pc[w] = "done"
TeamsRace == \A w \in Workers : w_job[w].kind = "teams"
StandingsRace == \A w \in Workers : w_job[w].kind = "standings"

IdsOf(w) == {w_job[w].rows[k] : k \in 1..Len(w_job[w].rows)}

\* C28: two workers insert-if-absent Team records with the same external id,
\* in any interleaving: no worker's insert raises, no worker requests a retry,
\* the store never holds two rows with one id, and once both have finished it
\* holds exactly one row for every id either of them wrote.
C28_ConcurrentInsertIfAbsent ==
    TeamsRace =>
        /\ \A w \in Workers : w_out[w].raised = "none" /\ w_out[w].calls = <<>>
        /\ \A x, y \in teams : x.id = y.id => x = y
        /\ RaceOver =>
               \A id \in IdsOf(1) \cup IdsOf(2) :
                   Cardinality({t \in teams : t.id = id}) = 1

\* Both workers wrote team 1, for different countries; the second worker's
\* transaction committed first and its row is the one stored.
C28_Witness ==
    /\ TeamsRace /\ RaceOver
    /\ 1 \in IdsOf(1) \cap IdsOf(2)
    /\ w_job[1].country # w_job[2].country
    /\ w_order = <<2, 1>>
    /\ Team(1, w_job[2].country) \in teams

\* The rows a worker's bulk_create writes when nothing is in its way.
WrittenBy(w) ==
    BulkCreateIgnoreConflicts({}, TableList(w_job[w].league, w_job[w].rows))

\* C29: two workers sync the same (league, season) with different valid
\* payloads, each with delete-then-insert-if-absent in its own transaction and
\* without locking: once both have finished, the snapshots of the pair are the
\* set written by the worker whose transaction committed last.
C29_LastWriteWins ==
    (/\ StandingsRace /\ RaceOver
     /\ w_job[1].rows # w_job[2].rows) =>
        Existing(snapshots, ReplaceLeague) = WrittenBy(w_order[Len(w_order)])

-----------------------------------------------------------------------------
(* Properties of what an execution raises to the task runtime *)

\* C30 as stated: no execution of populate_teams_task or populate_standings_task
\* ends as a failure; what it raises, if anything, is the retry signal.
C30_OnlyRetryEscapes ==
    /\ t_result \in {"none", "SUCCESS", "RETRY"}
    /\ c_result \in {"none", "SUCCESS", "RETRY"}

\* C30 (amended): an error in the sync of an entity leaves the execution as the
\* retry signal or not at all: an execution that invoked a sync ends as SUCCESS
\* or RETRY, and what a sync raises to the task is the retry signal. An
\* execution ends as a failure only when the bulk lookup of its keys raised
\* with the retry count at the maximum, before any entity was synced.
C30_EntityErrorsNeverFail ==
    /\ t_result = "FAILURE" => (t_invoked = <<>> /\ t_retries = max_retries)
    /\ c_result = "FAILURE" => (c_invoked = <<>> /\ c_retries = max_retries)
    /\ LeagueSyncRaised => (sync.raised = "Retry" /\ t_result = "RETRY")
    /\ CountrySyncRaised => (csync.raised = "Retry" /\ c_result = "RETRY")

\* The last permitted retry of a standings unit meets a transport error: the
\* execution ends with the retry signal.
C30_Witness ==
    /\ LeagueSyncRaised
    /\ t_retries = max_retries - 1
    /\ sync.body_raised = "RequestException"
    /\ t_result = "RETRY"

-----------------------------------------------------------------------------
(* Properties of the records the syncs build *)

\* The team ids the elements of a response carry.
IdsIn(rows) == {rows[k] : k \in 1..Len(rows)} \ {NoId, NotADict}

\* C31: an invocation of _process_single_country whose response is a list and
\* that completes leaves out every element without an id and stores, for every
\* other element, one Team with that id, the given country and the element's
\* national flag (false when the element has none), unless a Team with that id
\* is already stored; it makes one bulk_create call when at least one element
\* carries an id and none otherwise.
C31_OneTeamPerIdentifiedRecord ==
    (CountryWithinBudget /\ csync.kind = "list" /\ csync.raised = "none") =>
        /\ teams = csync.before \cup
               {[id |-> n, country |-> csync.country,
                 national |-> NationalKey(n) = "true"] :
                    n \in IdsIn(csync.rows) \ {x.id : x \in csync.before}}
        /\ \A x \in teams : Cardinality({y \in teams : y.id = x.id}) = 1
        /\ csync.writes <= 1
        /\ csync.writes = 0 <=> IdsIn(csync.rows) = {}

\* A response with an element without an id and a club that carries no
\* 'national' key.
C31_Witness ==
    /\ CountryWithinBudget /\ csync.kind = "list" /\ csync.raised = "none"
    /\ csync.rows = <<NoId, 1>>
    /\ csync.before = {}
    /\ csync.writes = 1
    /\ teams = {[id |-> 1, country |-> csync.country, national |-> FALSE]}

\* C32: every snapshot a standings sync that wrote its table leaves for its
\* pair comes from a row of the response: rank, points and goal difference are the row's,
\* goals for and against, matches played, wins, draws and losses are those of
\* the row's 'all' statistics, 0 where the row lacks one, and the form is the
\* row's, empty where the row has none.
C32_SnapshotFieldsFromRow ==
    (RunWithValidRows /\ run.body_raised = "none") =>
        \A x \in OfPair(snapshots) :
            \E k \in ValidRows(run.rows) :
                LET row == run.rows[k]
                    d == RowData(row.team)
                IN  /\ x.team = row.team
                    /\ x.rank = row.rank
                    /\ x.points = d.points
                    /\ x.goal_difference = d.goalsDiff
                    /\ x.goals_for = (IF d.for = Absent THEN 0 ELSE d.for)
                    /\ x.goals_against = (IF d.against = Absent THEN 0 ELSE d.against)
                    /\ x.matches_played = (IF d.played = Absent THEN 0 ELSE d.played)
                    /\ x.wins = (IF d.win = Absent THEN 0 ELSE d.win)
                    /\ x.draws = (IF d.draw = Absent THEN 0 ELSE d.draw)
                    /\ x.losses = (IF d.lose = Absent THEN 0 ELSE d.lose)
                    /\ x.last_five = (IF d.form = "absent" THEN "" ELSE d.form)

\* A complete row and a row without goals, wins, draws and form.
C32_Witness ==
    /\ RunWithValidRows /\ run.body_raised = "none"
    /\ run.rows = <<[team |-> 1, rank |-> 1], [team |-> 2, rank |-> 2]>>
    /\ \E x \in snapshots :
           /\ x.team = 2 /\ x.rank = 2 /\ x.points = 1 /\ x.goal_difference = -4
           /\ x.goals_for = 0 /\ x.goals_against = 0 /\ x.matches_played = 3
           /\ x.wins = 0 /\ x.draws = 0 /\ x.losses = 2 /\ x.last_five = ""
    /\ \E x \in snapshots :
           /\ x.team = 1 /\ x.goals_for = 5 /\ x.goals_against = 3 /\ x.wins = 2
           /\ x.draws = 1 /\ x.losses = 0 /\ x.last_five = "WWD"

-----------------------------------------------------------------------------
(* Properties of init_data *)

\* C33: a run of init_data whose league listing fetch raises raises to its
\* caller and leaves the Country and League rows as they were before the run.
C33_FailedFetchWritesNothing ==
    (InitDataRan /\ irun.fetch = "raised") =>
        /\ irun.raised # "none"
        /\ countries = irun.before_countries
        /\ leagues = irun.before_leagues

\* The fetch fails on an empty store while the source has leagues to serve.
C33_Witness ==
    /\ InitDataRan /\ irun.fetch = "raised"
    /\ irun.raised = "Exception"
    /\ upstream.leagues # <<>>
    /\ irun.before_countries = {} /\ countries = {}
    /\ irun.before_leagues = {} /\ leagues = {}

\* The records of a listing that carry a league name, a country and a season
\* year, as League rows in listing order, and the number of the others.
IsValidRecord(item) == item.name # "" /\ item.country # NullCountry /\ item.season # 0
RECURSIVE ValidLeagues(_)
ValidLeagues(items) ==
    IF items = <<>> THEN <<>>
    ELSE (IF IsValidRecord(Head(items))
            THEN <<[id |-> Head(items).id, name |-> Head(items).name,
                    country |-> Head(items).country, season |-> Head(items).season]>>
            ELSE <<>>) \o ValidLeagues(Tail(items))
InvalidCount(items) == Cardinality({k \in 1..Len(items) : ~IsValidRecord(items[k])})

\* C34: whatever the batch size, a completed run of init_data leaves the League
\* rows that inserting the leagues of the valid records, in listing order and
\* if absent, as one batch leaves: every new row is the league of a valid
\* record, every valid record's league is stored unless its key was taken,
\* every other record is skipped and counted once, and the country of every
\* record that has one is stored.
C34_BatchSizeIndependent ==
    (InitDataRan /\ irun.raised = "none") =>
        LET valid == ValidLeagues(upstream.leagues)
        IN  /\ leagues = BulkCreateLeagues(irun.before_leagues, valid)
            /\ \A l \in leagues \ irun.before_leagues :
                   \E k \in 1..Len(valid) : valid[k] = l
            /\ \A k \in 1..Len(valid) :
                   \E l \in leagues :
                       \/ l.id = valid[k].id
                       \/ (l.name = valid[k].name /\ l.season = valid[k].season
                           /\ l.country = valid[k].country)
            /\ irun.skipped = InvalidCount(upstream.leagues)
            /\ \A k \in 1..Len(upstream.leagues) :
                   upstream.leagues[k].country # NullCountry =>
                       upstream.leagues[k].country \in StoredCountries

\* Two valid leagues with a batch size of one: two batches, both stored.
C34_Witness ==
    /\ InitDataRan /\ irun.raised = "none"
    /\ irun.batch = 1
    /\ Len(upstream.leagues) = 2
    /\ irun.before_leagues = {}
    /\ Cardinality(leagues) = 2
    /\ irun.skipped = 0

-----------------------------------------------------------------------------
(* Properties of the retries of a unit of work *)

\* C35: one execution of populate_teams_task or populate_standings_task
\* schedules at most one re-invocation of its unit: once the worker has taken
\* the unit's message, the broker list holds at most one message, whatever
\* failed in the execution and in however many of its entities.
C35_AtMostOneReinvocation ==
    /\ t_execs = 1 => Len(queue) <= 1
    /\ c_execs = 1 => Len(queue) <= 1

\* The messages a step put on the broker list: those behind the ones that were
\* there before, less the one a worker took in the step.
Remaining == Len(queue) - (IF executed' # executed THEN 1 ELSE 0)
RunningRetries(msg) ==
    IF msg.task = "populate_standings_task" THEN t_retries' ELSE c_retries'

\* C36: every message a step of an execution puts on the broker list carries
\* the execution's retry count plus one; every message on the list and every
\* message taken from it has a retry count within 0..3; and under fair worker
\* scheduling the list is eventually empty, with no execution running, for good.
C36_RetryChainEnds ==
    /\ [][\A k \in 1..Len(queue') :
              k > Remaining => queue'[k].retries = RunningRetries(queue'[k]) + 1]_vars
    /\ [](/\ \A k \in 1..Len(queue) : queue[k].retries \in 0..max_retries
          /\ \A k \in 1..Len(executed) : executed[k].retries \in 0..max_retries)
    /\ <>[](queue = <<>> /\ t_pc = "idle" /\ c_pc = "idle")

\* The remote source failed in the executions with retry counts 0, 1 and 2; the
\* execution with retry count 3 has run and the list is empty.
C36_Witness ==
    /\ queue = <<>> /\ t_pc = "idle"
    /\ t_retries = max_retries
    /\ \A r \in 0..max_retries : \E k \in 1..Len(executed) : executed[k].retries = r
    /\ Len(executed) = MaxChainExecs

-----------------------------------------------------------------------------
(* Termination of the dispatch loop *)

IsAnyCheck(e) == e.ev = "check"

-----------------------------------------------------------------------------
(* Properties of the store as a whole *)

\* No two rows of `snaps` share (league, season, team).
OnePerKey(snaps) ==
    \A x, y \in snaps :
        (x.league = y.league /\ x.season = y.season /\ x.team = y.team) => x = y

\* C38: in every reachable state the store holds at most one snapshot per
\* (league, season, team), also when a payload lists the same team id in more
\* than one row and when two workers write the same (league, season) at the
\* same time; the same holds of what each worker's transaction sees.
C38_OneSnapshotPerKey ==
    /\ OnePerKey(snapshots)
    /\ StandingsRace => \A w \in Workers : OnePerKey(SnapshotsView(w))

\* Both workers have written the same (league, season); the payload of one of
\* them listed team 2 in two rows, with different ranks, and the store holds a
\* snapshot of team 2.
C38_Witness ==
    /\ StandingsRace /\ RaceOver
    /\ \E w \in Workers :
           /\ Len(w_job[w].rows) = 2
           /\ w_job[w].rows[1].team = 2 /\ w_job[w].rows[2].team = 2
           /\ w_job[w].rows[1] # w_job[w].rows[2]
    /\ \E x \in snapshots : x.team = 2


\* The snapshots of `snaps` outside the (league, season) pair of league lid.
OutsidePair(snaps, lid) ==
    {x \in snaps : ~(x.league = lid /\ x.season = LeagueSeason[lid])}

\* C39: a standings sync for league L leaves every snapshot whose (league,
\* season) differs from (L, L.season) as it was, adds none outside that pair,
\* and writes no Country, League or Team row.
C39_StandingsSyncFrame ==
    [][Len(t_invoked') = Len(t_invoked) + 1 =>
          /\ OutsidePair(snapshots', t_invoked'[Len(t_invoked')])
                 = OutsidePair(snapshots, t_invoked'[Len(t_invoked')])
          /\ UNCHANGED <<countries, leagues, teams>>]_vars

\* The sync of league 2 replaced nothing of league 1: the store held snapshots
\* of league 1 before it, the sync wrote snapshots of league 2, and those of
\* league 1 are still there.
C39_Witness ==
    /\ sync.kind # "none" /\ sync.league = 2
    /\ OutsidePair(sync.before, 2) # {}
    /\ \E x \in snapshots : x.league = 2
    /\ OutsidePair(snapshots, 2) = OutsidePair(sync.before, 2)


-----------------------------------------------------------------------------
(* Properties of a retried batch *)

\* The store after one execution of the batch in which every sync succeeds,
\* starting from the store tms.
RECURSIVE FullySuccessful(_, _)
FullySuccessful(args, tms) ==
    IF args = <<>> THEN tms
    ELSE FullySuccessful(Tail(args),
             IF Head(args) \in StoredCountries
               THEN BulkCreateTeams(tms, TeamsOf(Head(args), UpstreamTeams(Head(args))))
               ELSE tms)

\* An execution that was a retry has returned normally.
RetrySucceeded == c_pc = "idle" /\ c_result = "SUCCESS" /\ c_retries >= 1

\* Every message of the unit carries the whole batch, and a retry that returned
\* has invoked the sync for every resolved key of it, in order.
RetryRerunsEveryKey ==
    /\ \A k, n \in 1..Len(executed \o queue) :
           (executed \o queue)[k].args = (executed \o queue)[n].args
    /\ RetrySucceeded => c_invoked = Resolved(c_args, StoredCountries)

\* C40 as stated: a batch-level retry re-runs the sync for every resolved key
\* of the batch, and for the Team flavor with unchanged upstream data the store
\* after a failed execution followed by its successful retry equals the store
\* after one fully successful execution of the batch.
C40_RetryEqualsOneRun ==
    /\ RetryRerunsEveryKey
    /\ RetrySucceeded => teams = FullySuccessful(c_args, {})

\* C40 (amended): a batch-level retry re-runs the sync for every resolved key
\* of the batch, and for the Team flavor with unchanged upstream data the store
\* after a failed execution followed by its successful retry equals the store
\* after one fully successful execution of the batch, provided the retry runs
\* with a retry count below the maximum.
C40_RetryBelowMaxEqualsOneRun ==
    /\ RetryRerunsEveryKey
    /\ (RetrySucceeded /\ c_retries < max_retries) =>
           teams = FullySuccessful(c_args, {})

\* The first execution of the batch failed; its retry synced both countries
\* and returned, and the store holds what one successful execution stores:
\* team 2 with the country that wrote it first.
C40_Witness ==
    /\ RetrySucceeded /\ c_retries = 1
    /\ c_args = <<"England", "Spain">>
    /\ c_invoked = <<"England", "Spain">>
    /\ teams = {Team(1, "England"), Team(2, "England")}
    /\ Len(executed) = 2

=============================================================================
